---- MODULE Spec2Model ----
(***************************************************************************)
(* Model of the article creation workflow of agentic_blog_writer:          *)
(*   app/workflows/article_creation_workflow.py  (ArticleCreationWorkflow) *)
(*   app/services/workflow_data_manager.py       (WorkflowDataManager)     *)
(*   app/services/web_scraping_service.py        (WebScrapingService)      *)
(*                                                                         *)
(* Several specifications share the definitions below:                     *)
(*   ResearchSpec  the per-section research loop of _research_sections,    *)
(*                 one step per awaited collaborator call                  *)
(*                 (ResearchFairSpec: every awaited call ends);            *)
(*   BatchSpec     the batch strategy of _research_sections, one call;     *)
(*   SynthSpec     the concurrent fan-out / fan-in of _synthesize_sections,*)
(*                 one step per completing unit;                           *)
(*   ScrapeSpec    extract_and_scrape_urls of the scraping service, one    *)
(*                 step per stage, the crawl ending in every way;          *)
(*   StoreSpec     two save_data calls for different files, interleaved;   *)
(*   ClearSpec     clear_cache calls on a data directory;                  *)
(*   Spec          run() over repeated executions sharing the data         *)
(*                 directory, one step per phase.                          *)
(***************************************************************************)
EXTENDS Integers, Sequences, FiniteSets, TLC

\* ---------------------------------------------------------------- bounds
MaxSections == 2
MaxRetries == 2
MaxFaults == 1

\* ------------------------------------------------------------ basic data
\* Optional[T]: None is the empty sequence, a value x is <<x>>
None == <<>>

Ids == 1..MaxSections

DigitChar == <<"0", "1", "2", "3", "4", "5", "6", "7", "8", "9">>

RECURSIVE Str(_)
\* str(int) of the section id
Str(n) == IF n < 10 THEN DigitChar[n + 1]
          ELSE Str(n \div 10) \o DigitChar[(n % 10) + 1]

RECURSIVE SeqsNoDup(_, _)
SeqsNoDup(S, n) ==
    IF n = 0 THEN {<<>>}
    ELSE {<<>>} \cup
         UNION {{<<x>> \o t : t \in SeqsNoDup(S \ {x}, n - 1)} : x \in S}

Range(s) == {s[k] : k \in DOMAIN s}

\* SectionPlan: the fields the orchestration reads.  research_queries tells
\* the planner's queries from the ones substituted by the recovery agent.
SectionPlan(id, q) == [section_id |-> id, research_queries |-> q]

\* SectionPlans.section_plans as produced by the planner: distinct ids
PlanChoices ==
    {[k \in DOMAIN s |-> SectionPlan(s[k], "original")] :
        s \in SeqsNoDup(Ids, MaxSections)}

\* ResearchFinding; source_url "" stands for a missing URL
Finding(url) ==
    [source_url |-> url, snippet |-> "snippet of " \o url,
     relevance_score |-> <<"0.9">>, scraped_content |-> None]

FindingsChoices == {<<>>, <<Finding("u1")>>}

\* SectionResearchNotes
SectionResearchNotes(sid, f, sum) ==
    [section_id |-> sid, findings |-> f, summary |-> sum]

\* what the section research agent can return: the id is the agent's own
\* output and is not checked against the plan it was given
NoteOutputs ==
    {SectionResearchNotes(Str(id), f, "summary") :
        id \in Ids, f \in FindingsChoices}

NoNotesReturned == "No research notes returned for section"

\* str(e) of the exception caught at line 256
\* str(e) of an exception whose message is longer than CauseLimit
LongReason ==
    "research agent run failed, the search tool gave no answer within "
    \o "the time allowed for one call and the run was stopped after "
    \o "fifteen turns"

FailReasons == {"agent run failed", NoNotesReturned, LongReason}

\* outcome of one awaited Runner.run(section_research_agent, ...)
AttemptOutcomes ==
    {[kind |-> "note", note |-> <<n>>, e |-> ""] : n \in NoteOutputs}
    \cup {[kind |-> "falsy", note |-> <<>>, e |-> NoNotesReturned]}
    \cup {[kind |-> "raise", note |-> <<>>, e |-> e] :
            e \in {"agent run failed", LongReason}}

\* outcome of _attempt_research_recovery's agent call
RecoveryOutcomes ==
    {[kind |-> "improved", section_id |-> id] : id \in Ids}
    \cup {[kind |-> "no_queries", section_id |-> 0],
          [kind |-> "raise", section_id |-> 0]}

\* str(e)[:100] at line 280
CauseLimit == 100

\* s[:n]
Truncate(s, n) == IF Len(s) <= n THEN s ELSE SubSeq(s, 1, n)

\* variant of FailedSummary: the cause is not cut
FailedSummary_Uncut(e, M) ==
    "Research failed after " \o Str(M)
    \o " retries and recovery attempt: " \o e

\* the summary of the placeholder record (line 280)
FailedSummary(e, M) ==
    "Research failed after " \o Str(M)
    \o " retries and recovery attempt: " \o Truncate(e, CauseLimit)

\* ------------------------------------------- _research_sections, the loop
\* local variables of the individual strategy (lines 218-230)
ResearchLocals ==
    [pc |-> "for", i |-> 0,
     retry_count |-> 0, section_researched |-> FALSE,
     current_section_plan |-> SectionPlan(0, "original"),
     all_section_notes |-> <<>>,
     sections_with_findings |-> 0, sections_without_findings |-> 0,
     failed_sections |-> <<>>]

\* variant of WhileHead: the loop guard does not test section_researched
WhileHead_IgnoreDone(rs, M) ==
    IF rs.retry_count <= M THEN "attempt" ELSE "for"

\* variant of WhileHead: the loop guard written with < instead of <=
WhileHead_Strict(rs, M) ==
    IF rs.retry_count < M /\ ~rs.section_researched THEN "attempt" ELSE "for"

\* while retry_count <= max_retries and not section_researched (line 232)
WhileHead(rs, M) ==
    IF rs.retry_count <= M /\ ~rs.section_researched THEN "attempt" ELSE "for"

\* variant of BeginSection: current_section_plan is set for the first
\* section only
BeginSection_KeepPlan(rs, plans, M) ==
    LET r == [rs EXCEPT !.i = rs.i + 1,
                        !.retry_count = 0,
                        !.section_researched = FALSE,
                        !.current_section_plan =
                            IF rs.i = 0 THEN plans[1] ELSE @]
    IN  [r EXCEPT !.pc = WhileHead(r, M)]

\* for i, section_plan in enumerate(...): lines 223-230
BeginSection(rs, plans, M) ==
    LET r == [rs EXCEPT !.i = rs.i + 1,
                        !.retry_count = 0,
                        !.section_researched = FALSE,
                        !.current_section_plan = plans[rs.i + 1]]
    IN  [r EXCEPT !.pc = WhileHead(r, M)]

\* variant of AttemptSucceeded: a note without findings is counted but not kept
AttemptSucceeded_SkipEmpty(rs, note, M) ==
    LET r == [rs EXCEPT
                !.all_section_notes =
                    IF note.findings # <<>> THEN Append(@, note) ELSE @,
                !.section_researched = TRUE,
                !.sections_with_findings =
                    IF note.findings # <<>> THEN @ + 1 ELSE @,
                !.sections_without_findings =
                    IF note.findings # <<>> THEN @ ELSE @ + 1]
    IN  [r EXCEPT !.pc = WhileHead(r, M)]

\* lines 243-252: a truthy note was returned
AttemptSucceeded(rs, note, M) ==
    LET r == [rs EXCEPT
                !.all_section_notes = Append(rs.all_section_notes, note),
                !.section_researched = TRUE,
                !.sections_with_findings =
                    IF note.findings # <<>> THEN @ + 1 ELSE @,
                !.sections_without_findings =
                    IF note.findings # <<>> THEN @ ELSE @ + 1]
    IN  [r EXCEPT !.pc = WhileHead(r, M)]

\* variant of AttemptFailed: recovery is tried after every failed attempt
\* that leaves a retry
AttemptFailed_AlwaysRecover(rs, e, plans, M) ==
    LET rc == rs.retry_count + 1
        section_id_str == Str(plans[rs.i].section_id)
    IN  IF rc <= M
        THEN [rs EXCEPT !.retry_count = rc, !.pc = "recovery"]
        ELSE LET r == [rs EXCEPT
                        !.retry_count = rc,
                        !.sections_without_findings = @ + 1,
                        !.failed_sections = Append(@, section_id_str),
                        !.all_section_notes =
                            Append(@, SectionResearchNotes(
                                          section_id_str, <<>>,
                                          FailedSummary(e, M))),
                        !.section_researched = TRUE]
             IN  [r EXCEPT !.pc = WhileHead(r, M)]

\* lines 256-283: the except branch, up to the recovery call
\* variant of AttemptFailed: the retry counter is compared with M + 1
AttemptFailed_ExtraRetry(rs, e, plans, M) ==
    LET rc == rs.retry_count + 1
        section_id_str == Str(plans[rs.i].section_id)
    IN  IF rc <= M + 1
        THEN [rs EXCEPT !.retry_count = rc, !.pc = "attempt"]
        ELSE LET r == [rs EXCEPT
                        !.retry_count = rc,
                        !.sections_without_findings = @ + 1,
                        !.failed_sections = Append(@, section_id_str),
                        !.all_section_notes =
                            Append(@, SectionResearchNotes(
                                          section_id_str, <<>>,
                                          FailedSummary(e, M))),
                        !.section_researched = TRUE]
             IN  [r EXCEPT !.pc = "for"]

AttemptFailed(rs, e, plans, M) ==
    LET rc == rs.retry_count + 1
        section_id_str == Str(plans[rs.i].section_id)
    IN  IF rc <= M
        THEN IF rc = M
             THEN [rs EXCEPT !.retry_count = rc, !.pc = "recovery"]
             ELSE LET r == [rs EXCEPT !.retry_count = rc]
                  IN  [r EXCEPT !.pc = WhileHead(r, M)]
        ELSE LET r == [rs EXCEPT
                        !.retry_count = rc,
                        !.sections_without_findings = @ + 1,
                        !.failed_sections = Append(@, section_id_str),
                        !.all_section_notes =
                            Append(@, SectionResearchNotes(
                                          section_id_str, <<>>,
                                          FailedSummary(e, M))),
                        !.section_researched = TRUE]
             IN  [r EXCEPT !.pc = WhileHead(r, M)]

\* _attempt_research_recovery (lines 529-593): a plan or None
AttemptResearchRecovery(out) ==
    IF out.kind = "improved"
    THEN <<SectionPlan(out.section_id, "improved")>>
    ELSE <<>>

\* lines 262-267: the recovery call has returned
RecoveryReturned(rs, out, M) ==
    LET p == AttemptResearchRecovery(out)
    IN  IF p # <<>>
        THEN LET r == [rs EXCEPT !.current_section_plan = p[1]]
             IN  [r EXCEPT !.pc = WhileHead(r, M)]
        ELSE \* break
             [rs EXCEPT !.pc = "for"]

\* ------------------------------------------------- _synthesize_sections
\* SythesizedSection returned by the section synthesizer for a plan
SythesizedSection(plan) ==
    [section_id |-> plan.section_id,
     content |-> "## Section " \o Str(plan.section_id)]

\* how one dispatched Runner.run(section_synthesizer_agent, ...) can end:
\* a result, a result whose final_output_as raises, or the call raising
UnitOutcomes == {"ok", "unusable", "raise"}

Indexes(n) == [k \in 1..n |-> k]

\* lines 372-386: one task per plan that has research notes of its id, in
\* plan order
SynthesisTasks(plans, notes) ==
    LET research_notes_map == {notes[k].section_id : k \in DOMAIN notes}
        Paired(i) == Str(plans[i].section_id) \in research_notes_map
        idx == SelectSeq(Indexes(Len(plans)), Paired)
    IN  [k \in DOMAIN idx |-> [plan_index |-> idx[k], status |-> "running"]]

RECURSIVE JoinStr(_, _)
\* sep.join(strs)
JoinStr(strs, sep) ==
    IF strs = <<>> THEN ""
    ELSE IF Len(strs) = 1 THEN strs[1]
    ELSE strs[1] \o sep \o JoinStr(Tail(strs), sep)

SectionSeparator == "\n\n---\n\n"

\* SythesizedArticle with full_text_for_editing assigned (lines 413-416)
SythesizedArticle(sections) ==
    [sections |-> sections,
     full_text_for_editing |->
        JoinStr([k \in DOMAIN sections |-> sections[k].content],
                SectionSeparator)]

\* variant of GatherResults: results in the order the units completed
GatherResults_AsCompleted(tasks, completion) ==
    [k \in DOMAIN completion |-> tasks[completion[k]]]

\* results = await asyncio.gather(*synthesis_tasks) (line 394): one result
\* per task in the order of the tasks, whatever order they completed in
GatherResults(tasks, completion) ==
    [k \in DOMAIN tasks |-> tasks[k]]

\* locals of _synthesize_sections
SynthLocals ==
    [pc |-> "start", tasks |-> <<>>,
     synthesized_sections |-> <<>>, failed_syntheses |-> 0,
     fail_events |-> <<>>, message |-> ""]

\* lines 396-406: the loop over the gathered results
AggregateResults(sy, plans, results) ==
    LET Usable(r) == r.status = "ok"
        usable == SelectSeq(results, Usable)
        Unusable(k) == results[k].status # "ok"
        failed == SelectSeq(Indexes(Len(results)), Unusable)
    IN  [sy EXCEPT
            !.synthesized_sections =
                [k \in DOMAIN usable |->
                    SythesizedSection(plans[usable[k].plan_index])],
            !.failed_syntheses = Len(failed),
            \* original_plan = section_plans.section_plans[i] (line 405)
            !.fail_events =
                [k \in DOMAIN failed |-> plans[failed[k]].section_id]]

\* ------------------------------------------------------ WorkflowDataManager
PhaseNames ==
    {"planning", "researching", "scrape_web_content", "synthesize_sections",
     "openai_final_article_creation", "gemini_enhancement"}

FileNames == PhaseNames \cup {"workflow_config"}

\* a file of data/<title_slug>/: absent, or its text.  A text is <<json>>,
\* or <<>> for a file that holds no complete JSON document.  io_error says
\* that opening or reading the file raises OSError.
AbsentFile == [exists |-> FALSE, text |-> <<>>, io_error |-> FALSE]

EmptyDir == [f \in FileNames |-> AbsentFile]

\* data.model_dump_json(indent=2): the JSON document of a pydantic model
ModelDumpJson(model, data) == [model |-> model, fields |-> data]

\* variant of SaveData: the run directory is made anew for the write
SaveData_FreshDir(dir, phase, model, data) ==
    [EmptyDir EXCEPT ![phase] =
        [exists |-> TRUE, text |-> <<ModelDumpJson(model, data)>>,
         io_error |-> FALSE]]

\* save_data (lines 22-37); data is never None at its call sites
SaveData(dir, phase, model, data) ==
    [dir EXCEPT ![phase] =
        [exists |-> TRUE, text |-> <<ModelDumpJson(model, data)>>,
         io_error |-> FALSE]]

\* open(file_path, "w") (line 31): the file exists and is empty
OpenForWrite(dir, phase) ==
    [dir EXCEPT ![phase] = [exists |-> TRUE, text |-> <<>>,
                            io_error |-> FALSE]]

\* variant of LoadData: the file is never used
LoadData_Miss(dir, phase, output_model) == None

\* variant of LoadData: the document is returned without validation
LoadData_Unvalidated(dir, phase, output_model) ==
    LET file == dir[phase]
    IN  IF ~file.exists THEN None
        ELSE IF file.io_error THEN None
        ELSE IF file.text = <<>> THEN None
        ELSE <<file.text[1].fields>>

\* load_data (lines 39-79): None when the file is missing, cannot be opened
\* or read, is not JSON, or does not validate as output_model
LoadData(dir, phase, output_model) ==
    LET file == dir[phase]
    IN  IF ~file.exists THEN None
        ELSE IF file.io_error THEN None
        ELSE IF file.text = <<>> THEN None
        ELSE IF file.text[1].model # output_model THEN None
        ELSE <<file.text[1].fields>>

\* how a save_data call ends: written, or OSError from mkdir/open/write
SaveOutcomes == {"ok", "fail"}

\* ------------------------------------------------------ the phase functions
\* printer.update_item(key, text, is_done): what names the text
Ev(key, what, done) == [key |-> key, what |-> what, is_done |-> done]

\* what a phase function hands back to run(): its return value, the data
\* directory it leaves, the status events it emitted and the collaborators
\* it called
Outcome(ret, dir, ev, called) ==
    [ret |-> ret, dir |-> dir, ev |-> ev, called |-> called]

\* load_data's own status event (lines 61-66, 73-78)
LoadEvents(dir, phase, output_model) ==
    IF dir[phase].exists /\ LoadData(dir, phase, output_model) = None
    THEN <<Ev("load_error_" \o phase, "load_error", TRUE)>>
    ELSE <<>>

ArticleBrief(keywords) == [keywords |-> keywords]

SectionPlans(plans, brief) ==
    [section_plans |-> plans, article_brief |-> brief]

ResearchNotes(notes) == [notes_by_section |-> notes]

\* _plan_article (lines 121-151)
PlanArticle(dir, out) ==
    LET phase_name == "planning"
        loaded_data == LoadData(dir, phase_name, "SectionPlans")
        lev == LoadEvents(dir, phase_name, "SectionPlans")
    IN  IF loaded_data # None
        THEN Outcome(loaded_data, dir,
                     <<Ev(phase_name, "cached", TRUE)>>, <<>>)
        ELSE IF out.kind = "ok" /\ out.io = "ok"
        THEN Outcome(<<SectionPlans(out.plans, ArticleBrief(out.keywords))>>,
                     SaveData(dir, phase_name, "SectionPlans",
                              SectionPlans(out.plans,
                                           ArticleBrief(out.keywords))),
                     lev \o <<Ev(phase_name, "creating", FALSE),
                               Ev(phase_name, "complete", TRUE)>>,
                     <<phase_name>>)
        ELSE Outcome(None, dir,
                     lev \o <<Ev(phase_name, "creating", FALSE),
                               Ev(phase_name, "failed", TRUE)>>,
                     <<phase_name>>)

RECURSIVE ResearchFold(_, _, _, _)
\* the individual strategy's loops (lines 223-283) run to their end; the
\* k-th attempt of section i ends as scripts[i].att[k], its recovery call as
\* scripts[i].rec
ResearchFold(rs, plans, M, scripts) ==
    IF rs.pc = "for"
    THEN IF rs.i < Len(plans)
         THEN ResearchFold(BeginSection(rs, plans, M), plans, M, scripts)
         ELSE rs
    ELSE IF rs.pc = "attempt"
    THEN LET out == scripts[rs.i].att[rs.retry_count + 1]
         IN  IF out.kind = "note"
             THEN ResearchFold(AttemptSucceeded(rs, out.note[1], M),
                               plans, M, scripts)
             ELSE ResearchFold(AttemptFailed(rs, out.e, plans, M),
                               plans, M, scripts)
    ELSE ResearchFold(RecoveryReturned(rs, scripts[rs.i].rec, M),
                      plans, M, scripts)

\* variant of CompileResearch: notes with a placeholder are handed back but
\* not saved
CompileResearch_SkipFailed(dir, rs, io) ==
    LET phase_name == "researching"
        final_research_notes == ResearchNotes(rs.all_section_notes)
    IN  IF io = "ok"
        THEN Outcome(<<final_research_notes>>,
                IF rs.failed_sections # <<>> THEN dir
                ELSE SaveData(dir, phase_name, "ResearchNotes",
                              final_research_notes),
                <<Ev(phase_name, "complete", TRUE)>>
                \o (IF rs.failed_sections # <<>>
                    THEN <<Ev("research_failures", "failed_sections", TRUE)>>
                    ELSE <<>>),
                <<phase_name>>)
        ELSE Outcome(None, dir, <<Ev(phase_name, "failed", TRUE)>>,
                     <<phase_name>>)

\* lines 285-302: build ResearchNotes from the loop's list, save, report
CompileResearch(dir, rs, io) ==
    LET phase_name == "researching"
        final_research_notes == ResearchNotes(rs.all_section_notes)
    IN  IF io = "ok"
        THEN Outcome(<<final_research_notes>>,
                SaveData(dir, phase_name, "ResearchNotes",
                         final_research_notes),
                <<Ev(phase_name, "complete", TRUE)>>
                \o (IF rs.failed_sections # <<>>
                    THEN <<Ev("research_failures", "failed_sections", TRUE)>>
                    ELSE <<>>),
                <<phase_name>>)
        ELSE Outcome(None, dir, <<Ev(phase_name, "failed", TRUE)>>,
                     <<phase_name>>)

\* variant of BatchResearch: a placeholder record is added for every section
\* the agent left out
BatchResearch_Placeholders(dir, plans, out) ==
    LET phase_name == "researching"
        researched == {out.notes[k].section_id : k \in DOMAIN out.notes}
        missing == SelectSeq(plans,
                        LAMBDA p : Str(p.section_id) \notin researched)
        filled == out.notes \o
                  [k \in DOMAIN missing |->
                        SectionResearchNotes(Str(missing[k].section_id),
                                             <<>>, "Research failed")]
    IN  IF out.kind = "ok" /\ out.io = "ok"
        THEN Outcome(<<ResearchNotes(filled)>>,
                     SaveData(dir, phase_name, "ResearchNotes",
                              ResearchNotes(filled)),
                     <<Ev(phase_name, "complete", TRUE)>>,
                     <<phase_name>>)
        ELSE Outcome(None, dir, <<Ev(phase_name, "failed", TRUE)>>,
                     <<phase_name>>)

\* variant of BatchResearch: a failed batch call is not reported
BatchResearch_Silent(dir, plans, out) ==
    LET phase_name == "researching"
    IN  IF out.kind = "ok" /\ out.io = "ok"
        THEN Outcome(<<ResearchNotes(out.notes)>>,
                     SaveData(dir, phase_name, "ResearchNotes",
                              ResearchNotes(out.notes)),
                     <<Ev(phase_name, "complete", TRUE)>>,
                     <<phase_name>>)
        ELSE Outcome(None, dir, <<>>, <<phase_name>>)

\* lines 171-210: the batch strategy, one call for all sections
BatchResearch(dir, plans, out) ==
    LET phase_name == "researching"
        expected == {Str(plans[k].section_id) : k \in DOMAIN plans}
    IN  IF out.kind = "ok" /\ out.io = "ok"
        THEN LET researched ==
                    {out.notes[k].section_id : k \in DOMAIN out.notes}
             IN  Outcome(<<ResearchNotes(out.notes)>>,
                         SaveData(dir, phase_name, "ResearchNotes",
                                  ResearchNotes(out.notes)),
                         (IF expected \ researched # {}
                          THEN <<Ev("research_warning", "missing", TRUE)>>
                          ELSE <<>>)
                         \o <<Ev(phase_name, "complete", TRUE)>>,
                         <<phase_name>>)
        ELSE Outcome(None, dir, <<Ev(phase_name, "failed", TRUE)>>,
                     <<phase_name>>)

\* _research_sections (lines 153-306)
ResearchSections(dir, section_plans, in) ==
    LET phase_name == "researching"
        loaded_data == LoadData(dir, phase_name, "ResearchNotes")
        lev == LoadEvents(dir, phase_name, "ResearchNotes")
    IN  IF section_plans = None
        THEN Outcome(None, dir, <<Ev(phase_name, "skipped", TRUE)>>, <<>>)
        ELSE IF loaded_data # None
        THEN Outcome(loaded_data, dir,
                     <<Ev(phase_name, "cached", TRUE)>>, <<>>)
        ELSE LET plans == section_plans[1].section_plans
                 r == IF in.strategy = "batch"
                      THEN BatchResearch(dir, plans, in.batch)
                      ELSE CompileResearch(dir,
                              ResearchFold(ResearchLocals, plans,
                                           in.max_retries, in.scripts),
                              in.io)
             IN  [r EXCEPT !.ev =
                    lev \o <<Ev(phase_name, "researching", FALSE)>> \o @]

\* _extract_urls_from_research (web_scraping_service.py lines 39-50)
ExtractUrls(notes) ==
    {u \in UNION {{n.findings[k].source_url : k \in DOMAIN n.findings} :
                    n \in Range(notes.notes_by_section)} : u # ""}

\* the URLs of the findings; all lower case, so that url.lower() (line 61)
\* is the identity on them
Urls == {"u1", "u2", "r.pdf"}

Contains(s, sub) ==
    \E k \in 1..(Len(s) - Len(sub) + 1) : SubSeq(s, k, k + Len(sub) - 1) = sub

HasSuffix(s, suffix) ==
    /\ Len(s) >= Len(suffix)
    /\ SubSeq(s, Len(s) - Len(suffix) + 1, Len(s)) = suffix

DocumentSuffixes ==
    {".pdf", ".doc", ".docx", ".xls", ".xlsx", ".ppt", ".pptx"}

\* the part of the URL before the first "?"
BeforeQuery(url) ==
    IF Contains(url, "?")
    THEN SubSeq(url, 1,
                (CHOOSE k \in 1..Len(url) :
                    /\ SubSeq(url, k, k) = "?"
                    /\ \A m \in 1..(k - 1) : SubSeq(url, m, m) # "?") - 1)
    ELSE url

\* _filter_scrapable_urls (web_scraping_service.py lines 52-80)
FilterScrapableUrls(urls) ==
    {u \in urls :
        ~ \/ \E x \in DocumentSuffixes : HasSuffix(u, x)
          \/ Contains(BeforeQuery(u), ".pdf")}

\* page text is a sequence of pieces of markdown
Paragraph ==
    "Lorem ipsum dolor sit amet, consectetur adipiscing elit, sed do "
    \o "eiusmod tempor incididunt ut labore et dolore magna aliqua."

ImagePieces == {"![logo](logo.png)", "<img src='a.png' alt='a'>"}

Whitespace == {" ", "\n", "\n\n"}

RECURSIVE ContentLen(_)
ContentLen(content) ==
    IF content = <<>> THEN 0
    ELSE Len(Head(content)) + ContentLen(Tail(content))

RECURSIVE Strip(_)
\* str.strip()
Strip(content) ==
    IF content = <<>> THEN content
    ELSE IF Head(content) \in Whitespace THEN Strip(Tail(content))
    ELSE IF content[Len(content)] \in Whitespace
         THEN Strip(SubSeq(content, 1, Len(content) - 1))
    ELSE content

\* _clean_scraped_content (lines 163-182): images and empty links are
\* removed, link targets emptied, runs of newlines collapsed, then strip()
CleanScrapedContent(content) ==
    LET no_images == SelectSeq(content, LAMBDA t : t \notin ImagePieces)
        no_targets == [k \in DOMAIN no_images |->
                        IF HasSuffix(no_images[k], ")")
                           /\ Len(no_images[k]) >= 5
                           /\ SubSeq(no_images[k], 1, 5) = "(http"
                        THEN "()" ELSE no_images[k]]
        no_empty == SelectSeq(no_targets, LAMBDA t : t # "[ ]()")
        one_nl == [k \in DOMAIN no_empty |->
                        IF no_empty[k] = "\n\n" THEN "\n" ELSE no_empty[k]]
    IN  Strip(one_nl)

\* what the crawler can answer for one URL
CrawlKinds == {"failed", "no_markdown", "short", "page", "fit_page"}

PageText(url) ==
    <<Paragraph, "![logo](logo.png)", "(http://ref)", "\n\n",
      "text of " \o url, "\n">>

\* CrawlResult of crawl4ai as read at lines 129-151
CrawlResult(url, kind) ==
    [url |-> url,
     success |-> kind # "failed",
     markdown |->
        IF kind \in {"failed", "no_markdown"} THEN None
        ELSE <<[fit_markdown |->
                    IF kind = "fit_page" THEN <<Paragraph, "fit of " \o url>>
                    ELSE <<>>,
                raw_markdown |->
                    IF kind = "short" THEN <<"stub of " \o url>>
                    ELSE PageText(url)]>>]

\* an outcome of `async with AsyncWebCrawler ... arun_many` (lines 120-127)
CrawlRaises == [kind |-> "raise", results |-> [u \in Urls |-> "failed"]]

CrawlReturns(results) == [kind |-> "results", results |-> results]

CrawlAll(kind) == CrawlReturns([u \in Urls |-> kind])

EmptyMap == [u \in {} |-> <<>>]

\* len(content.strip()) > 100 (line 141)
MinContentLen == 100

\* lines 133-147: the content kept for one crawl result, if any
ResultContent(result) ==
    IF ~ result.success \/ result.markdown = None THEN None
    ELSE LET content == IF result.markdown[1].fit_markdown # <<>>
                        THEN result.markdown[1].fit_markdown
                        ELSE result.markdown[1].raw_markdown
         IN  IF content # <<>> /\ ContentLen(Strip(content)) > MinContentLen
             THEN <<CleanScrapedContent(content)>>
             ELSE None

\* variant of ScrapeUrls: no except clause around the crawl
ScrapeUrls_NoExcept(urls, crawl) ==
    LET scrapable_urls == FilterScrapableUrls(urls)
        kept == {u \in scrapable_urls :
                    ResultContent(CrawlResult(u, crawl.results[u])) # None}
    IN  [raised |-> scrapable_urls # {} /\ crawl.kind = "raise",
         scraped_content_map |->
            IF crawl.kind = "raise" THEN EmptyMap
            ELSE [u \in kept |->
                    ResultContent(CrawlResult(u, crawl.results[u]))[1]]]

\* _scrape_urls (lines 82-161): the map from URL to cleaned content; an
\* exception of the crawl is caught at line 153 with the map still empty
ScrapeUrls(urls, crawl) ==
    LET scrapable_urls == FilterScrapableUrls(urls)
        kept == {u \in scrapable_urls :
                    ResultContent(CrawlResult(u, crawl.results[u])) # None}
    IN  [raised |-> FALSE,
         scraped_content_map |->
            IF scrapable_urls = {} \/ crawl.kind = "raise" THEN EmptyMap
            ELSE [u \in kept |->
                    ResultContent(CrawlResult(u, crawl.results[u]))[1]]]

\* _update_notes_with_scraped_content (lines 184-196) on the deep copy
UpdateNotes(notes, scraped_content_map) ==
    LET Upd(f) == IF f.source_url # ""
                     /\ f.source_url \in DOMAIN scraped_content_map
                  THEN [f EXCEPT !.scraped_content =
                                    <<scraped_content_map[f.source_url]>>]
                  ELSE f
        UpdN(n) == [n EXCEPT !.findings =
                        [k \in DOMAIN n.findings |-> Upd(n.findings[k])]]
    IN  ResearchNotes([k \in DOMAIN notes.notes_by_section |->
                            UpdN(notes.notes_by_section[k])])

\* extract_and_scrape_urls (web_scraping_service.py lines 14-37) with the
\* crawl ending as given: the value returned, or raised when the crawl's
\* exception leaves _scrape_urls
ExtractAndScrapeUrls(research_notes, crawl) ==
    IF research_notes = None THEN [raised |-> FALSE, ret |-> None]
    ELSE IF ExtractUrls(research_notes[1]) = {}
    THEN [raised |-> FALSE, ret |-> research_notes]
    ELSE LET scraped == ScrapeUrls(ExtractUrls(research_notes[1]), crawl)
         IN  [raised |-> scraped.raised,
              ret |-> IF scraped.raised THEN None
                      ELSE <<UpdateNotes(research_notes[1],
                                         scraped.scraped_content_map)>>]

\* variant of ScrapeSave: the phase stores the notes it was given
ScrapeSave_Original(dir, original, augmented) ==
    SaveData(dir, "scrape_web_content", "ResearchNotes", original)

\* line 337: save_data(title_slug, phase_name, notes_to_augment)
ScrapeSave(dir, original, augmented) ==
    SaveData(dir, "scrape_web_content", "ResearchNotes", augmented)

\* save_data at line 327 is outside the try: its OSError leaves
\* _scrape_web_content
ScrapeRaises(dir, original_research_notes, out) ==
    /\ original_research_notes # None
    /\ LoadData(dir, "scrape_web_content", "ResearchNotes") = None
    /\ ExtractUrls(original_research_notes[1]) = {}
    /\ out.io # "ok"

\* _scrape_web_content (lines 308-351)
ScrapeWebContent(dir, original_research_notes, out) ==
    LET phase_name == "scrape_web_content"
        loaded_data == LoadData(dir, phase_name, "ResearchNotes")
        lev == LoadEvents(dir, phase_name, "ResearchNotes")
    IN  IF original_research_notes = None
        THEN Outcome(None, dir, <<Ev(phase_name, "skipped", TRUE)>>, <<>>)
        ELSE IF loaded_data # None
        THEN Outcome(loaded_data, dir,
                     <<Ev(phase_name, "cached", TRUE)>>, <<>>)
        ELSE IF ExtractUrls(original_research_notes[1]) = {}
        THEN Outcome(original_research_notes,
                     IF out.io = "ok"
                     THEN SaveData(dir, phase_name, "ResearchNotes",
                                   original_research_notes[1])
                     ELSE dir,
                     lev \o <<Ev(phase_name, "analyzing", FALSE),
                               Ev(phase_name, "no_urls", TRUE)>>,
                     <<>>)
        ELSE IF \/ out.kind = "raise"
                \/ out.io # "ok"
                \/ ExtractAndScrapeUrls(original_research_notes,
                                        out.crawl).raised
        THEN Outcome(original_research_notes, dir,
                     lev \o <<Ev(phase_name, "analyzing", FALSE),
                               Ev(phase_name, "scraping", FALSE),
                               Ev(phase_name, "failed", TRUE)>>,
                     <<phase_name>>)
        ELSE LET notes_to_augment ==
                    ExtractAndScrapeUrls(original_research_notes,
                                         out.crawl).ret
             IN  Outcome(notes_to_augment,
                         ScrapeSave(dir, original_research_notes[1],
                                    notes_to_augment[1]),
                         lev \o <<Ev(phase_name, "analyzing", FALSE),
                                   Ev(phase_name, "scraping", FALSE),
                                   Ev(phase_name, "complete", TRUE)>>,
                         <<phase_name>>)

\* lines 408-425: after the loop over the results
SynthFinish(dir, sy, io) ==
    LET phase_name == "synthesize_sections"
        fails == [k \in DOMAIN sy.fail_events |->
                    Ev("synthesis_section_fail_" \o Str(sy.fail_events[k]),
                       "failed", TRUE)]
    IN  IF sy.synthesized_sections = <<>>
        THEN Outcome(None, dir,
                     fails \o <<Ev(phase_name, "all_failed", TRUE)>>,
                     <<phase_name>>)
        ELSE IF io # "ok"
        THEN Outcome(None, dir,
                     fails \o <<Ev(phase_name, "failed", TRUE)>>,
                     <<phase_name>>)
        ELSE LET final_article == SythesizedArticle(sy.synthesized_sections)
                 success_message ==
                    "complete - " \o Str(Len(sy.synthesized_sections))
                    \o (IF sy.failed_syntheses > 0
                        THEN " (" \o Str(sy.failed_syntheses) \o " failed)"
                        ELSE "")
             IN  Outcome(<<final_article>>,
                         SaveData(dir, phase_name, "SythesizedArticle",
                                  final_article),
                         fails \o <<Ev(phase_name, success_message, TRUE)>>,
                         <<phase_name>>)

\* variant of SynthRaised: the article file was opened for writing before
\* the failure and is left without a document
SynthRaised_Partial(dir) ==
    Outcome(None,
            [dir EXCEPT !["synthesize_sections"] =
                [exists |-> TRUE, text |-> <<>>, io_error |-> FALSE]],
            <<Ev("synthesize_sections", "failed", TRUE)>>,
            <<"synthesize_sections">>)

\* lines 427-429: the gather raised
SynthRaised(dir) ==
    Outcome(None, dir, <<Ev("synthesize_sections", "failed", TRUE)>>,
            <<"synthesize_sections">>)

\* variant of SynthPrelude: the stored article is looked up before the
\* arguments are tested
SynthPrelude_CacheFirst(dir, section_plans, research_notes) ==
    LET phase_name == "synthesize_sections"
        loaded_data == LoadData(dir, phase_name, "SythesizedArticle")
    IN  IF loaded_data # None
        THEN <<Outcome(loaded_data, dir,
                       <<Ev(phase_name, "cached", TRUE)>>, <<>>)>>
        ELSE IF section_plans = None \/ research_notes = None
        THEN <<Outcome(None, dir, <<Ev(phase_name, "skipped", TRUE)>>, <<>>)>>
        ELSE IF SynthesisTasks(section_plans[1].section_plans,
                               research_notes[1].notes_by_section) = <<>>
        THEN <<Outcome(None, dir,
                       LoadEvents(dir, phase_name, "SythesizedArticle")
                       \o <<Ev(phase_name, "synthesizing", FALSE),
                             Ev(phase_name, "no_sections", TRUE)>>, <<>>)>>
        ELSE <<>>

\* lines 358-390: None when the phase goes on to dispatch its tasks
SynthPrelude(dir, section_plans, research_notes) ==
    LET phase_name == "synthesize_sections"
        loaded_data == LoadData(dir, phase_name, "SythesizedArticle")
    IN  IF section_plans = None \/ research_notes = None
        THEN <<Outcome(None, dir, <<Ev(phase_name, "skipped", TRUE)>>, <<>>)>>
        ELSE IF loaded_data # None
        THEN <<Outcome(loaded_data, dir,
                       <<Ev(phase_name, "cached", TRUE)>>, <<>>)>>
        ELSE IF SynthesisTasks(section_plans[1].section_plans,
                               research_notes[1].notes_by_section) = <<>>
        THEN <<Outcome(None, dir,
                       LoadEvents(dir, phase_name, "SythesizedArticle")
                       \o <<Ev(phase_name, "synthesizing", FALSE),
                             Ev(phase_name, "no_sections", TRUE)>>, <<>>)>>
        ELSE <<>>

\* _synthesize_sections (lines 353-429); outcomes[k] is how the k-th
\* dispatched unit ends
SynthesizeSections(dir, section_plans, research_notes, outcomes, io) ==
    LET pre == SynthPrelude(dir, section_plans, research_notes)
    IN  IF pre # <<>> THEN pre[1]
        ELSE
        LET plans == section_plans[1].section_plans
            tasks == SynthesisTasks(plans, research_notes[1].notes_by_section)
            ended == [k \in DOMAIN tasks |->
                        [tasks[k] EXCEPT !.status = outcomes[k]]]
            r == IF \E k \in DOMAIN ended : ended[k].status = "raise"
                 THEN SynthRaised(dir)
                 ELSE SynthFinish(dir,
                        AggregateResults(SynthLocals, plans,
                            GatherResults(ended, Indexes(Len(ended)))),
                        io)
        IN  [r EXCEPT !.ev =
                LoadEvents(dir, "synthesize_sections", "SythesizedArticle")
                \o <<Ev("synthesize_sections", "synthesizing", FALSE)>> \o @]

FinalArticle(markdown) == [full_text_markdown |-> markdown]

\* _create_openai_final_article (lines 431-479)
CreateFinalArticle(dir, synthesized_article, out) ==
    LET phase_name == "openai_final_article_creation"
        loaded_data == LoadData(dir, phase_name, "FinalArticle")
        lev == LoadEvents(dir, phase_name, "FinalArticle")
    IN  IF synthesized_article = None
           \/ synthesized_article[1].full_text_for_editing = ""
        THEN Outcome(None, dir, <<Ev(phase_name, "skipped", TRUE)>>, <<>>)
        ELSE IF loaded_data # None
        THEN Outcome(loaded_data, dir,
                     <<Ev(phase_name, "cached", TRUE)>>, <<>>)
        ELSE IF out.kind = "ok" /\ out.io = "ok"
        THEN Outcome(<<FinalArticle(out.text)>>,
                     SaveData(dir, phase_name, "FinalArticle",
                              FinalArticle(out.text)),
                     lev \o <<Ev(phase_name, "creating", FALSE),
                               Ev(phase_name, "complete", TRUE)>>,
                     <<phase_name>>)
        ELSE Outcome(None, dir,
                     lev \o <<Ev(phase_name, "creating", FALSE),
                               Ev(phase_name, "failed", TRUE)>>,
                     <<phase_name>>)

\* markdown.markdown(text).replace("\n", "") of a one-paragraph text
MarkdownToHtml(text) == "<p>" \o text \o "</p>"

FinalArticleWithGemini(text) ==
    [gemini_article |-> text, gemini_article_html |-> <<MarkdownToHtml(text)>>]

\* variant of EnhanceArticleWithGemini: empty content is not told from an
\* enhanced article
EnhanceArticleWithGemini_KeepEmpty(dir, final_article, out) ==
    LET phase_name == "gemini_enhancement"
        loaded_data == LoadData(dir, phase_name, "FinalArticleWithGemini")
        lev == LoadEvents(dir, phase_name, "FinalArticleWithGemini")
    IN  IF final_article = None \/ final_article[1].full_text_markdown = ""
        THEN Outcome(None, dir, <<Ev(phase_name, "skipped", TRUE)>>, <<>>)
        ELSE IF loaded_data # None
        THEN Outcome(loaded_data, dir,
                     <<Ev(phase_name, "cached", TRUE)>>, <<>>)
        ELSE IF out.kind = "raise" \/ out.io # "ok"
        THEN Outcome(None, dir,
                     lev \o <<Ev(phase_name, "enhancing", FALSE),
                               Ev(phase_name, "failed", TRUE)>>,
                     <<phase_name>>)
        ELSE Outcome(<<FinalArticleWithGemini(out.text)>>,
                     SaveData(dir, phase_name, "FinalArticleWithGemini",
                              FinalArticleWithGemini(out.text)),
                     lev \o <<Ev(phase_name, "enhancing", FALSE),
                               Ev(phase_name, "complete", TRUE)>>,
                     <<phase_name>>)

\* _enhance_article_with_gemini (lines 481-527)
EnhanceArticleWithGemini(dir, final_article, out) ==
    LET phase_name == "gemini_enhancement"
        loaded_data == LoadData(dir, phase_name, "FinalArticleWithGemini")
        lev == LoadEvents(dir, phase_name, "FinalArticleWithGemini")
    IN  IF final_article = None \/ final_article[1].full_text_markdown = ""
        THEN Outcome(None, dir, <<Ev(phase_name, "skipped", TRUE)>>, <<>>)
        ELSE IF loaded_data # None
        THEN Outcome(loaded_data, dir,
                     <<Ev(phase_name, "cached", TRUE)>>, <<>>)
        ELSE IF out.kind = "raise"
        THEN Outcome(None, dir,
                     lev \o <<Ev(phase_name, "enhancing", FALSE),
                               Ev(phase_name, "failed", TRUE)>>,
                     <<phase_name>>)
        ELSE IF out.text = ""
        THEN Outcome(None, dir,
                     lev \o <<Ev(phase_name, "enhancing", FALSE),
                               Ev(phase_name, "empty", TRUE)>>,
                     <<phase_name>>)
        ELSE IF out.io # "ok"
        THEN Outcome(None, dir,
                     lev \o <<Ev(phase_name, "enhancing", FALSE),
                               Ev(phase_name, "failed", TRUE)>>,
                     <<phase_name>>)
        ELSE Outcome(<<FinalArticleWithGemini(out.text)>>,
                     SaveData(dir, phase_name, "FinalArticleWithGemini",
                              FinalArticleWithGemini(out.text)),
                     lev \o <<Ev(phase_name, "enhancing", FALSE),
                               Ev(phase_name, "complete", TRUE)>>,
                     <<phase_name>>)

\* Path.unlink(): FileNotFoundError for a file that is not there
Unlink(dir, f) ==
    IF dir[f].exists
    THEN [raised |-> FALSE, dir |-> [dir EXCEPT ![f] = AbsentFile]]
    ELSE [raised |-> TRUE, dir |-> dir]

\* variant of ClearCacheOutcome: the phase argument is not looked at
ClearCacheOutcome_AllPhases(dir, phase) ==
    [raised |-> FALSE, dir |-> EmptyDir]

\* clear_cache (workflow_data_manager.py lines 86-102); phase "" is None.
\* A run directory without files stands for a missing one (line 90); the
\* glob of line 99 yields the files that exist
ClearCacheOutcome(dir, phase) ==
    IF \A f \in FileNames : ~ dir[f].exists
    THEN [raised |-> FALSE, dir |-> dir]
    ELSE IF phase # ""
    THEN IF dir[phase].exists THEN Unlink(dir, phase)
         ELSE [raised |-> FALSE, dir |-> dir]
    ELSE [raised |-> \E f \in FileNames :
                        dir[f].exists /\ Unlink(dir, f).raised,
          dir |-> [f \in FileNames |->
                    IF dir[f].exists THEN Unlink(dir, f).dir[f]
                    ELSE dir[f]]]

\* the run directory clear_cache leaves
ClearCache(dir, phase) == ClearCacheOutcome(dir, phase).dir

\* has_cached_data (lines 81-84)
HasCachedData(dir, phase) == dir[phase].exists

\* ------------------------------------------------------------------ state
VARIABLES
    store,        \* the files of data/<title_slug>/
    run,          \* position in run() and its local variables
    events,       \* the printer.update_item calls of the execution, in order
    hist,         \* history of the execution: phase functions entered,
                  \* collaborators called, phase files written
    first_ret,    \* history: per phase, what the execution that wrote the
                  \* phase's file returned
    faults,       \* number of clear_cache calls, file damages and interrupted
                  \* writes so far
    max_retries,  \* app_config.RESEARCH_MAX_RETRIES
    rs,           \* locals of _research_sections (individual strategy)
    r_cur,        \* history: the calls made for the section in progress
    r_returned,   \* history: per section, the note an attempt returned
    r_emitted,    \* history: per section, the record appended for it
    sy,           \* locals of _synthesize_sections
    sy_order,     \* history: the dispatched units in order of completion
    ws,           \* locals of extract_and_scrape_urls and its outcome
    dm            \* the data directory with the directories of all runs, and
                  \* the save_data calls in progress on it

research_vars == <<max_retries, rs, r_cur, r_returned, r_emitted>>

synth_vars == <<sy, sy_order>>

run_vars == <<first_ret, hist, faults>>

service_vars == <<ws, dm>>

vars == <<store, run, events, run_vars, research_vars, synth_vars,
          service_vars>>

\* locals of run() (lines 55-118)
RunLocals(pc) ==
    [pc |-> pc,
     section_plans |-> None, research_notes |-> None,
     final_research_notes |-> None, synthesized_article |-> None,
     final_article |-> None, gemini_enhanced_article |-> None]

NoHistory == [entered |-> <<>>, called |-> <<>>, wrote |-> <<>>, gen |-> <<>>]

NothingReturned == [p \in PhaseNames |-> None]

section_plans == run.section_plans[1].section_plans

NumSections == Len(section_plans)

SectionIdStr(i) == Str(section_plans[i].section_id)

\* the title slugs that have a directory under data_dir
Slugs == {"a", "b"}

\* the processes calling save_data
Callers == {"w1", "w2"}

\* locals of a save_data call (workflow_data_manager.py lines 22-37)
SaveLocals(title_slug, phase, data) ==
    [pc |-> "call", title_slug |-> title_slug, phase |-> phase,
     data |-> data]

\* data_dir with no run directory in use and no save_data call
NoData ==
    [disk |-> [t \in Slugs |-> EmptyDir],
     disk0 |-> [t \in Slugs |-> EmptyDir],
     calls |-> [w \in Callers |-> SaveLocals("a", "planning", None)]]

\* locals of extract_and_scrape_urls (web_scraping_service.py lines 14-37);
\* crawl records how the crawl ended once _scrape_urls has run it
ScrapeLocals ==
    [pc |-> "call", research_notes |-> None, urls_to_scrape |-> {},
     notes_to_augment |-> None, crawl |-> None,
     scraped_content_map |-> EmptyMap, ret |-> None]

CurFresh ==
    [attempts |-> 0, fails |-> 0, recovery |-> "not_invoked",
     last_input |-> SectionPlan(0, "original"), last_error |-> "",
     recoveries |-> 0]

\* ------------------------------------------------------------ ResearchSpec
InitResearch ==
    /\ store = EmptyDir
    /\ \E p \in PlanChoices :
            run = [RunLocals("phase2") EXCEPT
                        !.section_plans = <<SectionPlans(p, ArticleBrief(<<"k">>))>>]
    /\ events = <<>>
    /\ hist = NoHistory
    /\ first_ret = NothingReturned
    /\ faults = 0
    /\ max_retries \in 0..MaxRetries
    /\ rs = ResearchLocals
    /\ r_cur = CurFresh
    /\ r_returned = [i \in 1..NumSections |-> <<>>]
    /\ r_emitted = [i \in 1..NumSections |-> <<>>]
    /\ sy = SynthLocals
    /\ sy_order = <<>>
    /\ ws = ScrapeLocals
    /\ dm = NoData

\* the record the step appended to all_section_notes, if any
Appended(old, new) ==
    IF Len(new.all_section_notes) > Len(old.all_section_notes)
    THEN <<new.all_section_notes[Len(new.all_section_notes)]>>
    ELSE <<>>

\* for-loop header: the next section plan (lines 223-230)
R_BeginSection ==
    /\ rs.pc = "for"
    /\ rs.i < NumSections
    /\ rs' = BeginSection(rs, section_plans, max_retries)
    /\ r_cur' = CurFresh
    /\ UNCHANGED <<service_vars, store, run, events, run_vars, max_retries,
                   r_returned, r_emitted, synth_vars>>

\* the awaited research call returns a note (lines 235-252)
R_AttemptReturns(out) ==
    /\ rs.pc = "attempt"
    /\ out.kind = "note"
    /\ rs' = AttemptSucceeded(rs, out.note[1], max_retries)
    /\ r_cur' = [r_cur EXCEPT !.attempts = @ + 1,
                              !.last_input = rs.current_section_plan]
    /\ r_returned' = [r_returned EXCEPT ![rs.i] = out.note]
    /\ r_emitted' = [r_emitted EXCEPT ![rs.i] = @ \o Appended(rs, rs')]
    /\ UNCHANGED <<service_vars, store, run, events, run_vars, max_retries, synth_vars>>

\* the awaited research call raises, or returns nothing (lines 253-283)
R_AttemptFails(out) ==
    /\ rs.pc = "attempt"
    /\ out.kind # "note"
    /\ rs' = AttemptFailed(rs, out.e, section_plans, max_retries)
    /\ r_cur' = [r_cur EXCEPT !.attempts = @ + 1, !.fails = @ + 1,
                              !.last_input = rs.current_section_plan,
                              !.last_error = out.e]
    /\ r_emitted' = [r_emitted EXCEPT ![rs.i] = @ \o Appended(rs, rs')]
    /\ UNCHANGED <<service_vars, store, run, events, run_vars, max_retries, r_returned,
                   synth_vars>>

\* the awaited recovery call returns (lines 262-267, 529-593)
R_Recovery(out) ==
    /\ rs.pc = "recovery"
    /\ rs' = RecoveryReturned(rs, out, max_retries)
    /\ r_cur' = [r_cur EXCEPT !.recovery =
                    IF out.kind = "improved" THEN "improved" ELSE "failed",
                              !.recoveries = @ + 1]
    /\ UNCHANGED <<service_vars, store, run, events, run_vars, max_retries,
                   r_returned, r_emitted, synth_vars>>

\* after the loop: build ResearchNotes, save, return (lines 285-302); the
\* data directory is writable here, Spec has the failing save
R_Compile ==
    /\ rs.pc = "for"
    /\ rs.i = NumSections
    /\ LET r == CompileResearch(store, rs, "ok")
       IN  /\ run' = [run EXCEPT !.research_notes = r.ret]
           /\ store' = r.dir
           /\ events' = events \o r.ev
    /\ rs' = [rs EXCEPT !.pc = "done"]
    /\ UNCHANGED <<service_vars, run_vars, max_retries, r_cur, r_returned, r_emitted,
                   synth_vars>>

NextResearch ==
    \/ R_BeginSection
    \/ \E out \in AttemptOutcomes : R_AttemptReturns(out)
    \/ \E out \in AttemptOutcomes : R_AttemptFails(out)
    \/ \E out \in RecoveryOutcomes : R_Recovery(out)
    \/ R_Compile

ResearchSpec == InitResearch /\ [][NextResearch]_vars

\* every awaited call returns or raises, and the event loop then resumes
\* _research_sections
ResearchFairSpec == ResearchSpec /\ WF_vars(NextResearch)

\* --------------------------------------------------------------- SynthSpec
\* research notes handed to the synthesis: any records, any order
ResearchChoices ==
    {[k \in DOMAIN s |-> SectionResearchNotes(Str(s[k]), <<>>, "summary")] :
        s \in SeqsNoDup(Ids, MaxSections)}

InitSynth ==
    /\ store = EmptyDir
    /\ \E p \in PlanChoices, n \in ResearchChoices :
            run = [RunLocals("phase4") EXCEPT
                        !.section_plans = <<SectionPlans(p, ArticleBrief(<<"k">>))>>,
                        !.final_research_notes = <<ResearchNotes(n)>>]
    /\ events = <<>>
    /\ hist = NoHistory
    /\ first_ret = NothingReturned
    /\ faults = 0
    /\ max_retries = 0
    /\ rs = ResearchLocals
    /\ r_cur = CurFresh
    /\ r_returned = <<>>
    /\ r_emitted = <<>>
    /\ sy = SynthLocals
    /\ sy_order = <<>>
    /\ ws = ScrapeLocals
    /\ dm = NoData

\* _synthesize_sections returns r
SynthReturns(r) ==
    /\ run' = [run EXCEPT !.synthesized_article = r.ret]
    /\ store' = r.dir
    /\ events' = events \o r.ev

\* lines 358-390: entry, pairing and dispatch of the units
S_Dispatch ==
    /\ sy.pc = "start"
    /\ LET pre == SynthPrelude(store, run.section_plans,
                               run.final_research_notes)
       IN  IF pre # <<>>
           THEN /\ SynthReturns(pre[1])
                /\ sy' = [sy EXCEPT !.pc = "done"]
           ELSE /\ sy' = [sy EXCEPT
                            !.pc = "gather",
                            !.tasks = SynthesisTasks(section_plans,
                                run.final_research_notes[1].notes_by_section)]
                /\ events' = events
                        \o LoadEvents(store, "synthesize_sections",
                                      "SythesizedArticle")
                        \o <<Ev("synthesize_sections", "synthesizing",
                                FALSE)>>
                /\ UNCHANGED <<store, run>>
    /\ UNCHANGED <<service_vars, run_vars, research_vars, sy_order>>

\* a dispatched unit ends while the coordinator awaits the gather
S_UnitCompletes(u, outcome) ==
    /\ sy.pc = "gather"
    /\ u \in DOMAIN sy.tasks
    /\ sy.tasks[u].status = "running"
    /\ sy' = [sy EXCEPT !.tasks[u].status = outcome]
    /\ sy_order' = Append(sy_order, u)
    /\ UNCHANGED <<service_vars, store, run, events, run_vars, research_vars>>

\* line 394 raises the exception of a unit that raised; lines 427-429
S_GatherRaises ==
    /\ sy.pc = "gather"
    /\ \E u \in DOMAIN sy.tasks : sy.tasks[u].status = "raise"
    /\ SynthReturns(SynthRaised(store))
    /\ sy' = [sy EXCEPT !.pc = "done"]
    /\ UNCHANGED <<service_vars, run_vars, research_vars, sy_order>>

\* line 394 returns the results: every unit has ended, none raised; the
\* data directory is writable here, Spec has the failing save
S_Aggregate ==
    /\ sy.pc = "gather"
    /\ \A u \in DOMAIN sy.tasks : sy.tasks[u].status \in {"ok", "unusable"}
    /\ LET a == AggregateResults(sy, section_plans,
                                 GatherResults(sy.tasks, sy_order))
       IN  /\ SynthReturns(SynthFinish(store, a, "ok"))
           /\ sy' = [a EXCEPT !.pc = "done"]
    /\ UNCHANGED <<service_vars, run_vars, research_vars, sy_order>>

\* a unit still running when the coordinator has returned: nothing awaits
\* it any more and asyncio.run cancels it when run() ends (line 615)
S_UnitCancelled(u) ==
    /\ sy.pc = "done"
    /\ u \in DOMAIN sy.tasks
    /\ sy.tasks[u].status = "running"
    /\ sy' = [sy EXCEPT !.tasks[u].status = "cancelled"]
    /\ UNCHANGED <<service_vars, store, run, events, run_vars, research_vars, sy_order>>

NextSynth ==
    \/ S_Dispatch
    \/ \E u \in 1..MaxSections, o \in UnitOutcomes : S_UnitCompletes(u, o)
    \/ S_GatherRaises
    \/ S_Aggregate
    \/ \E u \in 1..MaxSections : S_UnitCancelled(u)

SynthSpec == InitSynth /\ [][NextSynth]_vars

\* -------------------------------------------------------------- ScrapeSpec
\* the findings a section's notes can hold
ScrapeFindingChoices ==
    {<<>>,
     <<Finding("u1")>>,
     <<Finding("r.pdf")>>,
     <<Finding("u1"), Finding("u2")>>,
     <<Finding("u2"), Finding("r.pdf")>>,
     <<Finding(""), Finding("u1")>>}

\* the research notes the service can be given
ScrapeInputs ==
    {None} \cup
    UNION {{<<ResearchNotes([k \in 1..n |->
                SectionResearchNotes(Str(k), fs[k], "summary")])>> :
                fs \in [1..n -> ScrapeFindingChoices]} : n \in 0..MaxSections}

\* how the crawl of the scrapable URLs can end
CrawlOutcomes ==
    {CrawlRaises} \cup
    {CrawlReturns(r) : r \in {q \in [Urls -> CrawlKinds] :
                                \A u \in Urls \ FilterScrapableUrls(Urls) :
                                    q[u] = "failed"}}

InitScrape ==
    /\ store = EmptyDir
    /\ run = RunLocals("phase3")
    /\ events = <<>>
    /\ hist = NoHistory
    /\ first_ret = NothingReturned
    /\ faults = 0
    /\ max_retries = 0
    /\ rs = ResearchLocals
    /\ r_cur = CurFresh
    /\ r_returned = <<>>
    /\ r_emitted = <<>>
    /\ sy = SynthLocals
    /\ sy_order = <<>>
    /\ \E notes \in ScrapeInputs :
            ws = [ScrapeLocals EXCEPT !.research_notes = notes]
    /\ dm = NoData

\* lines 19-29: the early returns, else the deep copy
S_Extract ==
    /\ ws.pc = "call"
    /\ ws' = IF ws.research_notes = None
             THEN [ws EXCEPT !.pc = "done", !.ret = None]
             ELSE IF ExtractUrls(ws.research_notes[1]) = {}
             THEN [ws EXCEPT !.pc = "done", !.ret = ws.research_notes]
             ELSE [ws EXCEPT !.pc = "scrape",
                             !.urls_to_scrape =
                                    ExtractUrls(ws.research_notes[1]),
                             !.notes_to_augment = ws.research_notes]
    /\ UNCHANGED <<store, run, events, run_vars, research_vars, synth_vars, dm>>

\* _scrape_urls where nothing is left after filtering (lines 96-102)
S_NothingScrapable ==
    /\ ws.pc = "scrape"
    /\ FilterScrapableUrls(ws.urls_to_scrape) = {}
    /\ ws' = [ws EXCEPT !.pc = "update",
                        !.scraped_content_map =
                            ScrapeUrls(ws.urls_to_scrape,
                                       CrawlRaises).scraped_content_map]
    /\ UNCHANGED <<store, run, events, run_vars, research_vars, synth_vars, dm>>

\* _scrape_urls with the crawl ending as c (lines 104-161)
S_Crawl(c) ==
    /\ ws.pc = "scrape"
    /\ FilterScrapableUrls(ws.urls_to_scrape) # {}
    /\ LET scraped == ScrapeUrls(ws.urls_to_scrape, c)
       IN  ws' = [ws EXCEPT !.pc = IF scraped.raised THEN "raised"
                                   ELSE "update",
                            !.crawl = <<c>>,
                            !.scraped_content_map =
                                scraped.scraped_content_map]
    /\ UNCHANGED <<store, run, events, run_vars, research_vars, synth_vars, dm>>

\* lines 35-37: update the copy and return it
S_Update ==
    /\ ws.pc = "update"
    /\ LET updated == UpdateNotes(ws.notes_to_augment[1],
                                  ws.scraped_content_map)
       IN  ws' = [ws EXCEPT !.pc = "done",
                            !.notes_to_augment = <<updated>>,
                            !.ret = <<updated>>]
    /\ UNCHANGED <<store, run, events, run_vars, research_vars, synth_vars, dm>>

NextScrape ==
    \/ S_Extract
    \/ S_NothingScrapable
    \/ \E c \in CrawlOutcomes : S_Crawl(c)
    \/ S_Update

ScrapeSpec == InitScrape /\ [][NextScrape]_vars

\* --------------------------------------------------------------- StoreSpec
\* the phases the callers write
StorePhases == {"planning", "researching"}

\* the artifact a caller writes: research notes that name the caller
ArtifactOf(w) ==
    ResearchNotes(<<SectionResearchNotes(w, <<>>, "summary")>>)

\* an artifact stored by an earlier run
OldArtifact == ResearchNotes(<<SectionResearchNotes("old", <<>>, "summary")>>)

\* the data directory before the calls: per run and phase no file, or a
\* file stored earlier
DiskChoices ==
    {[t \in Slugs |->
        [f \in FileNames |->
            IF f \in StorePhases /\ <<t, f>> \in present
            THEN SaveData(EmptyDir, f, "ResearchNotes", OldArtifact)[f]
            ELSE AbsentFile]] :
        present \in SUBSET (Slugs \X StorePhases)}

KeyOf(call) == <<call.title_slug, call.phase>>

\* two processes call save_data, each for a (title_slug, phase) of its own;
\* a call may be given None
InitStore ==
    /\ store = EmptyDir
    /\ run = RunLocals("idle")
    /\ events = <<>>
    /\ hist = NoHistory
    /\ first_ret = NothingReturned
    /\ faults = 0
    /\ max_retries = 0
    /\ rs = ResearchLocals
    /\ r_cur = CurFresh
    /\ r_returned = <<>>
    /\ r_emitted = <<>>
    /\ sy = SynthLocals
    /\ sy_order = <<>>
    /\ ws = ScrapeLocals
    /\ \E d \in DiskChoices,
          k1 \in Slugs \X StorePhases, k2 \in Slugs \X StorePhases,
          none \in BOOLEAN :
        /\ k1 # k2
        /\ dm = [disk |-> d, disk0 |-> d,
                 calls |-> [w \in Callers |->
                    IF w = "w1"
                    THEN SaveLocals(k1[1], k1[2],
                                    IF none THEN None ELSE <<ArtifactOf(w)>>)
                    ELSE SaveLocals(k2[1], k2[2], <<ArtifactOf(w)>>)]]

\* lines 24-29: return at once for None, else make the run directory
D_Mkdir(w) ==
    /\ dm.calls[w].pc = "call"
    /\ dm' = [dm EXCEPT !.calls[w].pc =
                IF dm.calls[w].data = None THEN "returned" ELSE "open"]
    /\ UNCHANGED <<store, run, events, run_vars, research_vars, synth_vars,
                   ws>>

\* line 31: open(file_path, "w"), which may raise OSError
D_Open(w, io) ==
    /\ dm.calls[w].pc = "open"
    /\ LET c == dm.calls[w]
       IN  dm' = IF io = "ok"
                 THEN [dm EXCEPT !.calls[w].pc = "write",
                                 !.disk[c.title_slug] =
                                    OpenForWrite(dm.disk[c.title_slug],
                                                 c.phase)]
                 ELSE [dm EXCEPT !.calls[w].pc = "raised"]
    /\ UNCHANGED <<store, run, events, run_vars, research_vars, synth_vars,
                   ws>>

\* lines 32-37: write the document and close the file
D_Write(w) ==
    /\ dm.calls[w].pc = "write"
    /\ LET c == dm.calls[w]
       IN  dm' = [dm EXCEPT !.calls[w].pc = "returned",
                            !.disk[c.title_slug] =
                                SaveData(dm.disk[c.title_slug], c.phase,
                                         "ResearchNotes", c.data[1])]
    /\ UNCHANGED <<store, run, events, run_vars, research_vars, synth_vars,
                   ws>>

NextStore ==
    \E w \in Callers :
        \/ D_Mkdir(w)
        \/ \E io \in SaveOutcomes : D_Open(w, io)
        \/ D_Write(w)

StoreSpec == InitStore /\ [][NextStore]_vars

\* --------------------------------------------------------------- ClearSpec
\* the files a run directory may hold before the clear_cache calls
ClearFiles == {"workflow_config", "planning", "researching"}

\* the phase arguments of the calls: "" is None, gemini_enhancement has no
\* file in any run directory
ClearPhases == {"", "planning", "researching", "gemini_enhancement"}

ClearDisks ==
    {[t \in Slugs |->
        [f \in FileNames |->
            IF <<t, f>> \in present
            THEN SaveData(EmptyDir, f, "ResearchNotes", OldArtifact)[f]
            ELSE AbsentFile]] :
        present \in SUBSET (Slugs \X ClearFiles)}

\* two clear_cache calls, made one after the other in either order
InitClear ==
    /\ store = EmptyDir
    /\ run = RunLocals("idle")
    /\ events = <<>>
    /\ hist = NoHistory
    /\ first_ret = NothingReturned
    /\ faults = 0
    /\ max_retries = 0
    /\ rs = ResearchLocals
    /\ r_cur = CurFresh
    /\ r_returned = <<>>
    /\ r_emitted = <<>>
    /\ sy = SynthLocals
    /\ sy_order = <<>>
    /\ ws = ScrapeLocals
    /\ \E d \in ClearDisks, k \in [Callers -> Slugs \X ClearPhases] :
        dm = [disk |-> d, disk0 |-> d,
              calls |-> [w \in Callers |->
                            SaveLocals(k[w][1], k[w][2], None)]]

\* clear_cache(title_slug, phase) (lines 86-102)
D_Clear(w) ==
    /\ dm.calls[w].pc = "call"
    /\ LET c == dm.calls[w]
           out == ClearCacheOutcome(dm.disk[c.title_slug], c.phase)
       IN  dm' = [dm EXCEPT !.calls[w].pc = IF out.raised THEN "raised"
                                            ELSE "returned",
                            !.disk[c.title_slug] = out.dir]
    /\ UNCHANGED <<store, run, events, run_vars, research_vars, synth_vars,
                   ws>>

NextClear == \E w \in Callers : D_Clear(w)

ClearSpec == InitClear /\ [][NextClear]_vars

\* ------------------------------------------------------------ run(): Spec
\* what the collaborators of one execution can do
\* the planner is given the configuration, which can differ between two
\* executions for one title: its plan is not always the same
PlannerOutputs ==
    {[kind |-> "ok", plans |-> <<SectionPlan(1, "original")>>,
      keywords |-> k, io |-> io] : k \in {None, <<"k">>}, io \in SaveOutcomes}
    \cup {[kind |-> "ok", plans |-> <<SectionPlan(2, "original")>>,
           keywords |-> <<"k">>, io |-> "ok"],
          [kind |-> "raise", plans |-> <<>>, keywords |-> None, io |-> "ok"]}

\* research retries configured for an execution
RetryChoices == {0, 1}

OwnNote(plan) ==
    SectionResearchNotes(Str(plan.section_id), <<Finding("u1")>>, "summary")

\* per section: how each attempt and the recovery call end
SectionScripts(plan, M) ==
    {[att |-> a, rec |-> r] :
        a \in [1..(M + 1) ->
                {[kind |-> "note", note |-> <<OwnNote(plan)>>, e |-> ""],
                 [kind |-> "raise", note |-> <<>>,
                  e |-> "agent run failed"]}],
        r \in {[kind |-> "improved", section_id |-> plan.section_id],
               [kind |-> "raise", section_id |-> 0]}}

Scripts(plans, M) ==
    LET all == UNION {SectionScripts(plans[i], M) : i \in DOMAIN plans}
    IN  {sc \in [DOMAIN plans -> all] :
            \A i \in DOMAIN plans : sc[i] \in SectionScripts(plans[i], M)}

BatchOutcomes(plans) ==
    {[kind |-> "raise", notes |-> <<>>, io |-> "ok"]}
    \cup {[kind |-> "ok", io |-> io,
           notes |-> [i \in DOMAIN plans |-> OwnNote(plans[i])]] :
                io \in SaveOutcomes}
    \cup {[kind |-> "ok", io |-> "ok",
           notes |-> [i \in DOMAIN plans \cap {1} |-> OwnNote(plans[i])]]}

ResearchInputs(plans) ==
    UNION {{[strategy |-> "individual", max_retries |-> M, scripts |-> sc,
             batch |-> [kind |-> "raise", notes |-> <<>>, io |-> "ok"],
             io |-> io] :
                sc \in Scripts(plans, M), io \in SaveOutcomes} :
           M \in RetryChoices}
    \cup {[strategy |-> "batch", max_retries |-> 0, scripts |-> <<>>,
           batch |-> b, io |-> b.io] : b \in BatchOutcomes(plans)}

ScrapeOutcomes ==
    {[kind |-> "ok", crawl |-> c, io |-> io] :
        c \in {CrawlRaises, CrawlAll("failed"), CrawlAll("page")},
        io \in SaveOutcomes}
    \cup {[kind |-> "raise", crawl |-> CrawlRaises, io |-> "ok"]}

FinalOutcomes ==
    {[kind |-> "ok", text |-> "# Article", io |-> io] : io \in SaveOutcomes}
    \cup {[kind |-> "ok", text |-> "", io |-> "ok"],
          [kind |-> "raise", text |-> "", io |-> "ok"]}

EnhanceOutcomes ==
    {[kind |-> "ok", text |-> "enhanced", io |-> io] : io \in SaveOutcomes}
    \cup {[kind |-> "ok", text |-> "", io |-> "ok"],
          [kind |-> "raise", text |-> "", io |-> "ok"]}

Init ==
    /\ store = EmptyDir
    /\ run = RunLocals("idle")
    /\ events = <<>>
    /\ hist = NoHistory
    /\ first_ret = NothingReturned
    /\ faults = 0
    /\ max_retries = 0
    /\ rs = ResearchLocals
    /\ r_cur = CurFresh
    /\ r_returned = <<>>
    /\ r_emitted = <<>>
    /\ sy = SynthLocals
    /\ sy_order = <<>>
    /\ ws = ScrapeLocals
    /\ dm = NoData

\* save_data(title_slug, "workflow_config", self.config) (line 52): the
\* config is a dataclass, so str(config) is written, which is not JSON
SaveConfig(dir) ==
    [dir EXCEPT !["workflow_config"] =
        [exists |-> TRUE, text |-> <<>>, io_error |-> FALSE]]

\* display_phase_start (workflow_display_manager.py lines 31-41)
PhaseStart(n) == Ev("phase_" \o Str(n), "start", TRUE)

\* display_workflow_complete (workflow_display_manager.py lines 43-46)
WorkflowComplete == Ev("workflow_complete", "completed", TRUE)

\* how the phase's collaborator call and the save after it ended
Gen(r, kind, io) ==
    IF r.called = <<>> THEN "not_called"
    ELSE IF kind # "ok" THEN kind
    ELSE IF r.ret = None /\ io # "ok" THEN "save_failed"
    ELSE "ok"

\* the history of a phase function that was entered and handed back r
Entered(phase, r, gen) ==
    /\ hist' = [entered |-> Append(hist.entered, phase),
                called |-> hist.called \o r.called,
                wrote |-> IF r.dir # store THEN Append(hist.wrote, phase)
                          ELSE hist.wrote,
                gen |-> Append(hist.gen, gen)]
    /\ first_ret' = IF r.dir # store
                    THEN [first_ret EXCEPT ![phase] = r.ret]
                    ELSE first_ret
    /\ store' = r.dir

\* lines 44-53: an execution of run() begins
StartRun(io) ==
    /\ run.pc \in {"idle", "returned", "raised"}
    /\ IF io = "ok"
       THEN /\ run' = RunLocals("phase1")
            /\ events' = <<Ev("trace_id", "trace", TRUE),
                           Ev("save_config", "saving", FALSE),
                           Ev("save_config", "saved", TRUE)>>
            /\ store' = SaveConfig(store)
       ELSE \* save_data raises at line 52, outside any try
            /\ run' = RunLocals("raised")
            /\ events' = <<Ev("trace_id", "trace", TRUE),
                           Ev("save_config", "saving", FALSE)>>
            /\ store' = store
    /\ hist' = NoHistory
    /\ UNCHANGED <<service_vars, first_ret, faults, research_vars, synth_vars>>

\* variant of AfterPlan: with a plan run() goes on to phase 3
AfterPlan_SkipResearch(plan, raised) ==
    IF raised THEN "raised"
    ELSE IF plan # None THEN "phase3" ELSE "returned"

\* variant of AfterPlan: run() goes on to phase 2 whatever the plan is
AfterPlan_Continue(plan, raised) ==
    IF raised THEN "raised" ELSE "phase2"

\* lines 59-65: where run() goes after phase 1
AfterPlan(plan, raised) ==
    IF raised THEN "raised"
    ELSE IF plan # None THEN "phase2" ELSE "returned"

\* print_article_plan (workflow_display_manager.py lines 48-63) joins the
\* brief's keywords, which the schema allows to be None
PrintArticlePlanRaises(plan) ==
    plan[1].article_brief.keywords = None

\* lines 55-65
Phase1(out) ==
    /\ run.pc = "phase1"
    /\ LET r == PlanArticle(store, out)
           raised == r.ret # None /\ PrintArticlePlanRaises(r.ret)
       IN  /\ Entered("planning", r, Gen(r, out.kind, out.io))
           /\ run' = [run EXCEPT !.section_plans = r.ret,
                                 !.pc = AfterPlan(r.ret, raised)]
           /\ events' = events \o <<PhaseStart(1)>> \o r.ev
                \o (IF r.ret # None
                    THEN <<Ev("plan_summary", "generated", TRUE)>>
                    ELSE <<Ev("plan_failed", "terminated", TRUE),
                           WorkflowComplete>>)
    /\ UNCHANGED <<service_vars, faults, research_vars, synth_vars>>

\* lines 67-75
Phase2 ==
    /\ run.pc = "phase2"
    /\ \E in \in ResearchInputs(IF run.section_plans = None THEN <<>>
                                 ELSE section_plans) :
       LET r == ResearchSections(store, run.section_plans, in)
       IN  /\ Entered("researching", r,
                      Gen(r, IF in.strategy = "batch" THEN in.batch.kind
                             ELSE "ok", in.io))
           /\ run' = [run EXCEPT !.research_notes = r.ret, !.pc = "phase3"]
           /\ events' = events \o <<PhaseStart(2)>> \o r.ev
                \o (IF r.ret # None
                    THEN <<Ev("research_summary", "collected", TRUE)>>
                    ELSE <<Ev("research_warning", "continuing", TRUE)>>)
    /\ UNCHANGED <<service_vars, faults, research_vars, synth_vars>>

\* lines 77-84
Phase3(out) ==
    /\ run.pc = "phase3"
    /\ LET r == ScrapeWebContent(store, run.research_notes, out)
           raised == ScrapeRaises(store, run.research_notes, out)
       IN  /\ Entered("scrape_web_content", r,
                      IF raised THEN "save_failed"
                      ELSE IF r.called = <<>> THEN "not_called"
                      ELSE IF out.kind # "ok" THEN out.kind
                      ELSE IF out.io # "ok" THEN "save_failed"
                      ELSE IF r.ret = run.research_notes THEN "empty"
                      ELSE "ok")
           /\ run' = IF raised THEN [run EXCEPT !.pc = "raised"]
                     ELSE [run EXCEPT !.final_research_notes = r.ret,
                                      !.pc = "phase4"]
           /\ events' = events \o <<PhaseStart(3)>> \o r.ev
                \o (IF r.ret # None \/ raised THEN <<>>
                    ELSE <<Ev("scraping_skipped", "skipped", TRUE)>>)
    /\ UNCHANGED <<service_vars, faults, research_vars, synth_vars>>

\* the units phase 4 would dispatch
UnitsToDispatch ==
    IF SynthPrelude(store, run.section_plans, run.final_research_notes) # <<>>
    THEN 0
    ELSE Len(SynthesisTasks(run.section_plans[1].section_plans,
                            run.final_research_notes[1].notes_by_section))

\* lines 86-94
Phase4 ==
    /\ run.pc = "phase4"
    /\ \E outcomes \in [1..UnitsToDispatch -> UnitOutcomes],
          io \in SaveOutcomes :
       LET r == SynthesizeSections(store, run.section_plans,
                                   run.final_research_notes, outcomes, io)
       IN  /\ Entered("synthesize_sections", r,
                      Gen(r, IF \E u \in DOMAIN outcomes :
                                    outcomes[u] = "raise"
                             THEN "raise"
                             ELSE IF \A u \in DOMAIN outcomes :
                                        outcomes[u] # "ok"
                             THEN "empty" ELSE "ok", io))
           /\ run' = [run EXCEPT !.synthesized_article = r.ret,
                                 !.pc = "phase5"]
           /\ events' = events \o <<PhaseStart(4)>> \o r.ev
                \o (IF r.ret # None
                    THEN <<Ev("synthesis_summary", "synthesized", TRUE)>>
                    ELSE <<Ev("synthesis_failed", "failed", TRUE)>>)
    /\ UNCHANGED <<service_vars, faults, research_vars, synth_vars>>

\* lines 96-104
Phase5(out) ==
    /\ run.pc = "phase5"
    /\ LET r == CreateFinalArticle(store, run.synthesized_article, out)
       IN  /\ Entered("openai_final_article_creation", r,
                      Gen(r, out.kind, out.io))
           /\ run' = [run EXCEPT !.final_article = r.ret, !.pc = "phase6"]
           /\ events' = events \o <<PhaseStart(5)>> \o r.ev
                \o (IF r.ret # None
                    THEN <<Ev("final_success", "created", TRUE)>>
                    ELSE <<Ev("final_failed", "failed", TRUE)>>)
    /\ UNCHANGED <<service_vars, faults, research_vars, synth_vars>>

\* lines 106-118
Phase6(out) ==
    /\ run.pc = "phase6"
    /\ LET r == EnhanceArticleWithGemini(store, run.final_article, out)
       IN  /\ Entered("gemini_enhancement", r,
                      Gen(r, IF out.kind = "ok" /\ out.text = ""
                             THEN "empty" ELSE out.kind, out.io))
           /\ run' = [run EXCEPT !.gemini_enhanced_article = r.ret,
                                 !.pc = "returned"]
           /\ events' = events \o <<PhaseStart(6)>> \o r.ev
                \o (IF r.ret # None
                    THEN <<Ev("gemini_success", "enhanced", TRUE),
                           Ev("gemini_snippet", "snippet", TRUE)>>
                    ELSE <<Ev("gemini_failed", "failed", TRUE)>>)
                \o <<WorkflowComplete>>
    /\ UNCHANGED <<service_vars, faults, research_vars, synth_vars>>

\* the process is stopped between two phases (line 615 never returns)
Interrupt ==
    /\ run.pc \in {"phase2", "phase3", "phase4", "phase5", "phase6"}
    /\ run' = RunLocals("idle")
    /\ events' = <<>>
    /\ hist' = NoHistory
    /\ UNCHANGED <<service_vars, store, first_ret, faults, research_vars, synth_vars>>

\* clear_cache(title_slug, phase) between executions; "" stands for None
Clear(phase) ==
    /\ run.pc \in {"idle", "returned", "raised"}
    /\ ClearCache(store, phase) # store
    /\ store' = ClearCache(store, phase)
    /\ first_ret' = [p \in PhaseNames |->
                        IF store'[p].exists THEN first_ret[p] ELSE None]
    /\ run' = RunLocals("idle")
    /\ events' = <<>>
    /\ hist' = NoHistory
    /\ faults < MaxFaults
    /\ faults' = faults + 1
    /\ UNCHANGED <<service_vars, research_vars, synth_vars>>

\* the phase's file is damaged between executions: cut short (a write that
\* did not complete), replaced by a document of another shape, or made
\* unreadable (open or read raises OSError)
Damage(phase, how) ==
    /\ run.pc \in {"idle", "returned", "raised"}
    /\ faults < MaxFaults
    /\ store[phase].exists
    /\ LET file == store[phase]
       IN  CASE how = "truncated" ->
                    /\ file.text # <<>>
                    /\ store' = [store EXCEPT ![phase].text = <<>>]
             [] how = "invalid" ->
                    /\ file.text # <<>>
                    /\ file.text[1].model # "Malformed"
                    /\ store' = [store EXCEPT
                                    ![phase].text[1].model = "Malformed"]
             [] how = "io_error" ->
                    /\ ~file.io_error
                    /\ store' = [store EXCEPT ![phase].io_error = TRUE]
    /\ faults' = faults + 1
    /\ run' = RunLocals("idle")
    /\ events' = <<>>
    /\ hist' = NoHistory
    /\ UNCHANGED <<service_vars, first_ret, research_vars, synth_vars>>

\* the phase function run() is about to enter can reach save_data's
\* open(file_path, "w") (workflow_data_manager.py line 31) for its own file
SavesNow(phase) ==
    CASE phase = "planning" ->
            /\ run.pc = "phase1"
            /\ \E out \in PlannerOutputs : PlanArticle(store, out).dir # store
      [] phase = "researching" ->
            /\ run.pc = "phase2"
            /\ \E in \in ResearchInputs(IF run.section_plans = None THEN <<>>
                                         ELSE section_plans) :
                    ResearchSections(store, run.section_plans, in).dir # store
      [] phase = "scrape_web_content" ->
            /\ run.pc = "phase3"
            /\ \E out \in ScrapeOutcomes :
                    ScrapeWebContent(store, run.research_notes, out).dir
                        # store
      [] phase = "synthesize_sections" ->
            /\ run.pc = "phase4"
            /\ \E outcomes \in [1..UnitsToDispatch -> UnitOutcomes] :
                    SynthesizeSections(store, run.section_plans,
                        run.final_research_notes, outcomes, "ok").dir # store
      [] phase = "openai_final_article_creation" ->
            /\ run.pc = "phase5"
            /\ \E out \in FinalOutcomes :
                    CreateFinalArticle(store, run.synthesized_article,
                                       out).dir # store
      [] phase = "gemini_enhancement" ->
            /\ run.pc = "phase6"
            /\ \E out \in EnhanceOutcomes :
                    EnhanceArticleWithGemini(store, run.final_article,
                                             out).dir # store

\* the process is stopped inside save_data, after open(file_path, "w")
\* (workflow_data_manager.py line 31) and before the document is complete
\* (lines 32-36): the phase's file is left without a JSON document
InterruptWrite(phase) ==
    /\ SavesNow(phase)
    /\ store' = OpenForWrite(store, phase)
    /\ run' = RunLocals("idle")
    /\ events' = <<>>
    /\ hist' = NoHistory
    /\ faults < MaxFaults
    /\ faults' = faults + 1
    /\ UNCHANGED <<service_vars, first_ret, research_vars, synth_vars>>

Next ==
    \/ \E io \in SaveOutcomes : StartRun(io)
    \/ \E out \in PlannerOutputs : Phase1(out)
    \/ Phase2
    \/ \E out \in ScrapeOutcomes : Phase3(out)
    \/ Phase4
    \/ \E out \in FinalOutcomes : Phase5(out)
    \/ \E out \in EnhanceOutcomes : Phase6(out)
    \/ Interrupt
    \/ \E phase \in PhaseNames : InterruptWrite(phase)
    \/ \E phase \in PhaseNames \cup {""} : Clear(phase)
    \/ \E phase \in PhaseNames, how \in {"truncated", "invalid", "io_error"} :
            Damage(phase, how)

Spec == Init /\ [][Next]_vars

\* --------------------------------------------------------------- BatchSpec
\* what the research agent can return for a batch call: notes for any
\* sections, in any order, with or without findings
BatchNotes ==
    UNION {{[k \in DOMAIN ids |->
                SectionResearchNotes(Str(ids[k]), fs[k], "summary")] :
                fs \in [DOMAIN ids -> FindingsChoices]} :
           ids \in SeqsNoDup(Ids, MaxSections)}

\* how the batch call and the save that follows it end
BatchChoices ==
    {[kind |-> "raise", notes |-> <<>>, io |-> "ok"]}
    \cup {[kind |-> "ok", notes |-> n, io |-> io] :
            n \in BatchNotes, io \in SaveOutcomes}

\* _research_sections is entered with a plan, nothing is cached
InitBatch ==
    /\ store = EmptyDir
    /\ \E p \in PlanChoices :
            run = [RunLocals("phase2") EXCEPT
                        !.section_plans = <<SectionPlans(p, ArticleBrief(<<"k">>))>>]
    /\ events = <<>>
    /\ hist = NoHistory
    /\ first_ret = NothingReturned
    /\ faults = 0
    /\ max_retries = 0
    /\ rs = ResearchLocals
    /\ r_cur = CurFresh
    /\ r_returned = <<>>
    /\ r_emitted = <<>>
    /\ sy = SynthLocals
    /\ sy_order = <<>>
    /\ ws = ScrapeLocals
    /\ dm = NoData

BatchInput(out) ==
    [strategy |-> "batch", max_retries |-> 0, scripts |-> <<>>,
     batch |-> out, io |-> out.io]

\* _research_sections with RESEARCH_STRATEGY == "batch" (lines 153-210);
\* r_returned keeps the notes the agent returned
B_Research(out) ==
    /\ run.pc = "phase2"
    /\ LET r == ResearchSections(store, run.section_plans, BatchInput(out))
       IN  /\ Entered("researching", r, Gen(r, out.kind, out.io))
           /\ run' = [run EXCEPT !.research_notes = r.ret, !.pc = "phase3"]
           /\ events' = events \o r.ev
    /\ r_returned' = out.notes
    /\ UNCHANGED <<service_vars, faults, max_retries, rs, r_cur, r_emitted,
                   synth_vars>>

NextBatch == \E out \in BatchChoices : B_Research(out)

BatchSpec == InitBatch /\ [][NextBatch]_vars

\* ======================================================= research claims
InSection == rs.i >= 1

\* the while loop of section rs.i has been left
SectionEnded == InSection /\ rs.pc \in {"for", "done"}

IsPlaceholderFor(rec, i) ==
    \E e \in FailReasons :
        rec = SectionResearchNotes(SectionIdStr(i), <<>>,
                                   FailedSummary(e, max_retries))

RECURSIVE Flatten(_, _)
Flatten(f, n) == IF n = 0 THEN <<>> ELSE Flatten(f, n - 1) \o f[n]

\* the history variables describe the list the code builds
HistoryMatches == rs.all_section_notes = Flatten(r_emitted, NumSections)

InputIds == {SectionIdStr(i) : i \in 1..NumSections}

OutputIds(notes) == {notes[k].section_id : k \in DOMAIN notes}

\* every note an attempt returned carries the id of the section it was for
NotesCarryOwnId ==
    \A i \in 1..NumSections :
        r_returned[i] # <<>> => r_returned[i][1].section_id = SectionIdStr(i)

\* C1: coverage completeness.  When _research_sections has returned, the
\* artifact holds exactly one record per input section plan and the set of
\* record ids equals the set of input ids, whatever the per-section
\* outcomes were (stated for agents that answer with the id they were asked
\* about).
C1_CoverageComplete ==
    (rs.pc = "done" /\ NotesCarryOwnId) =>
        LET out == run.research_notes[1].notes_by_section
        IN  /\ Len(out) = NumSections
            /\ OutputIds(out) = InputIds

\* C5: isolation.  When the phase has returned, every section one of whose
\* attempts succeeded is in the output with the record that attempt
\* returned, and every section none of whose attempts succeeded is in the
\* output with a Failed placeholder.
C5_Isolation ==
    rs.pc = "done" =>
        /\ HistoryMatches
        /\ \A i \in 1..NumSections :
              /\ r_returned[i] # <<>> => r_emitted[i] = r_returned[i]
              /\ r_returned[i] = <<>> =>
                    /\ Len(r_emitted[i]) = 1
                    /\ IsPlaceholderFor(r_emitted[i][1], i)

\* C6: retry bound, always-failing section.  A section all of whose
\* attempts failed, the recovery step not having failed, has ended after
\* exactly max_retries + 1 attempts with a Failed placeholder; for
\* max_retries >= 1 the recovery was invoked and the last attempt was made
\* with the plan it returned.  No section ever makes more attempts.
C6_AlwaysFailingBound ==
    /\ r_cur.attempts <= max_retries + 1
    /\ (r_cur.recovery = "not_invoked" /\ r_cur.attempts > 0) =>
            r_cur.last_input = section_plans[rs.i]
    /\ (SectionEnded /\ r_cur.fails = r_cur.attempts
            /\ r_cur.recovery # "failed") =>
        /\ r_cur.attempts = max_retries + 1
        /\ Len(r_emitted[rs.i]) = 1
        /\ IsPlaceholderFor(r_emitted[rs.i][1], rs.i)
        /\ rs.all_section_notes[Len(rs.all_section_notes)] = r_emitted[rs.i][1]
        /\ rs.failed_sections # <<>>
        /\ rs.failed_sections[Len(rs.failed_sections)] = SectionIdStr(rs.i)
        /\ max_retries >= 1 =>
              /\ r_cur.recovery = "improved"
              /\ r_cur.last_input.research_queries = "improved"

C6_Witness ==
    /\ SectionEnded
    /\ max_retries = 2
    /\ r_cur.fails = 3
    /\ r_cur.attempts = 3
    /\ r_cur.recovery = "improved"

\* C7: retry bound, late success.  For max_retries >= 1, a section whose
\* first max_retries - 1 attempts failed is due for another attempt with no
\* recovery in between; when that attempt succeeds the section has ended,
\* the output holds the record the attempt returned, and no placeholder was
\* emitted for the section.
C7_LateSuccess ==
    (InSection /\ max_retries >= 1 /\ r_cur.fails = max_retries - 1) =>
        /\ r_cur.attempts = max_retries - 1 =>
              /\ rs.pc = "attempt"
              /\ r_cur.recovery = "not_invoked"
        /\ r_cur.attempts = max_retries =>
              /\ SectionEnded
              /\ r_returned[rs.i] # <<>>
              /\ r_emitted[rs.i] = r_returned[rs.i]
              /\ rs.all_section_notes[Len(rs.all_section_notes)]
                    = r_returned[rs.i][1]
              /\ SectionIdStr(rs.i) \notin Range(rs.failed_sections)

C7_Witness ==
    /\ SectionEnded
    /\ max_retries = 2
    /\ r_cur.fails = 1
    /\ r_cur.attempts = 2
    /\ r_returned[rs.i] # <<>>

\* C8: recovery failure leads to Failed.  A section whose recovery step
\* failed has ended without a further attempt, with a Failed placeholder of
\* empty findings in the output, and is listed among the failed sections.
C8_RecoveryFailureFails ==
    (InSection /\ r_cur.recovery = "failed") =>
        /\ SectionEnded
        /\ r_cur.attempts = max_retries
        /\ Len(r_emitted[rs.i]) = 1
        /\ IsPlaceholderFor(r_emitted[rs.i][1], rs.i)
        /\ SectionIdStr(rs.i) \in Range(rs.failed_sections)

\* ====================================================== synthesis claims
\* the dispatched units that ended with a usable SythesizedSection
SucceededUnits == {u \in DOMAIN sy.tasks : sy.tasks[u].status = "ok"}

\* the coordinator has dispatched units and has returned
SynthReturned == sy.pc = "done" /\ sy.tasks # <<>>

\* the phase's final status event
LastEvent == events[Len(events)]

\* the section bodies of the units that succeeded, in plan order
BodiesInPlanOrder ==
    LET Succeeded(k) ==
            \E u \in SucceededUnits : sy.tasks[u].plan_index = k
        idx == SelectSeq(Indexes(NumSections), Succeeded)
    IN  [k \in DOMAIN idx |-> SythesizedSection(section_plans[idx[k]])]

\* C2 -- aggregate rule of _synthesize_sections: whenever the coordinator
\* has returned and at least one dispatched unit succeeded, the phase
\* returned an article holding exactly the successful sections, the article
\* is in the store, and the final status event reports the number of failed
\* units; the phase returned nothing and stored nothing only when no unit
\* succeeded.
C2_AggregateRule ==
    SynthReturned =>
        LET failed == Len(sy.tasks) - Cardinality(SucceededUnits)
        IN  IF SucceededUnits # {}
            THEN /\ run.synthesized_article # None
                 /\ run.synthesized_article[1].sections = BodiesInPlanOrder
                 /\ LoadData(store, "synthesize_sections",
                             "SythesizedArticle") = run.synthesized_article
                 /\ sy.failed_syntheses = failed
                 /\ failed > 0 =>
                        LastEvent.what =
                            "complete - " \o Str(Cardinality(SucceededUnits))
                            \o " (" \o Str(failed) \o " failed)"
            ELSE /\ run.synthesized_article = None
                 /\ ~store["synthesize_sections"].exists

\* C9 -- order preservation: whatever order the dispatched units completed
\* in, the sections of the returned article and the bodies joined into its
\* full text are those of the successful units in plan declaration order.
C9_OrderPreserved ==
    (SynthReturned /\ run.synthesized_article # None) =>
        LET article == run.synthesized_article[1]
            bodies == [k \in DOMAIN BodiesInPlanOrder |->
                            BodiesInPlanOrder[k].content]
        IN  /\ article.sections = BodiesInPlanOrder
            /\ article.full_text_for_editing =
                    JoinStr(bodies, SectionSeparator)
            /\ \A k, l \in DOMAIN article.sections :
                    k < l =>
                        \E a, b \in 1..NumSections :
                            /\ a < b
                            /\ section_plans[a].section_id =
                                    article.sections[k].section_id
                            /\ section_plans[b].section_id =
                                    article.sections[l].section_id

\* two sections were synthesized and the second unit completed first
C9_Witness ==
    /\ SynthReturned
    /\ run.synthesized_article # None
    /\ Len(run.synthesized_article[1].sections) = 2
    /\ sy_order = <<2, 1>>

\* C10 -- join-all: when the coordinator has returned, every dispatched
\* unit has completed on its own (none is still running, none was
\* cancelled), and the aggregation loop ran only over completed units.
C10_JoinAll ==
    SynthReturned =>
        \A u \in DOMAIN sy.tasks :
            sy.tasks[u].status \in {"ok", "unusable", "raise"}

\* =================================================== orchestrator claims
PhaseOrder ==
    <<"planning", "researching", "scrape_web_content", "synthesize_sections",
      "openai_final_article_creation", "gemini_enhancement">>

RequiredPhases ==
    {"planning", "researching", "synthesize_sections",
     "openai_final_article_creation"}

\* the local of run() that holds the phase's result
ResultIn(r, phase) ==
    CASE phase = "planning" -> r.section_plans
      [] phase = "researching" -> r.research_notes
      [] phase = "scrape_web_content" -> r.final_research_notes
      [] phase = "synthesize_sections" -> r.synthesized_article
      [] phase = "openai_final_article_creation" -> r.final_article
      [] phase = "gemini_enhancement" -> r.gemini_enhanced_article

\* the status event run() emits when the phase handed back nothing
FailureKey(phase) ==
    CASE phase = "planning" -> "plan_failed"
      [] phase = "researching" -> "research_warning"
      [] phase = "scrape_web_content" -> "scraping_skipped"
      [] phase = "synthesize_sections" -> "synthesis_failed"
      [] phase = "openai_final_article_creation" -> "final_failed"
      [] phase = "gemini_enhancement" -> "gemini_failed"

EventKeys == {events[k].key : k \in DOMAIN events}

\* the k-th phase entered by this execution ended with no artifact
FailedAt(k) == ResultIn(run, hist.entered[k]) = None

ModelOf(phase) ==
    CASE phase = "planning" -> "SectionPlans"
      [] phase \in {"researching", "scrape_web_content"} -> "ResearchNotes"
      [] phase = "synthesize_sections" -> "SythesizedArticle"
      [] phase = "openai_final_article_creation" -> "FinalArticle"
      [] phase = "gemini_enhancement" -> "FinalArticleWithGemini"

\* a readable artifact of the phase is in the store
Readable(phase) == LoadData(store, phase, ModelOf(phase)) # None

\* the phase function's guard on its arguments passes
UpstreamPresent(phase) ==
    CASE phase = "planning" -> TRUE
      [] phase = "researching" -> run.section_plans # None
      [] phase = "scrape_web_content" -> run.research_notes # None
      [] phase = "synthesize_sections" ->
            run.section_plans # None /\ run.final_research_notes # None
      [] phase = "openai_final_article_creation" ->
            /\ run.synthesized_article # None
            /\ run.synthesized_article[1].full_text_for_editing # ""
      [] phase = "gemini_enhancement" ->
            /\ run.final_article # None
            /\ run.final_article[1].full_text_markdown # ""

\* C4 -- idempotent resumability: whenever an execution enters a phase
\* whose readable artifact is in the store (persisted by some earlier step,
\* not cleared since) and whose upstream inputs are present, the phase
\* hands back exactly what the step that persisted the artifact handed
\* back, calls no collaborator and leaves the store as it is.
C4_IdempotentResume ==
    [][\A phase \in PhaseNames :
        (/\ hist'.entered = Append(hist.entered, phase)
         /\ Readable(phase)
         /\ UpstreamPresent(phase)) =>
            /\ ResultIn(run', phase) = first_ret[phase]
            /\ hist'.called = hist.called
            /\ store' = store]_vars

\* a later execution got plan, research and augmented research from the
\* store: nothing called, nothing written, and the augmented notes differ
\* from the research notes
C4_Witness ==
    /\ Len(hist.entered) >= 3
    /\ hist.called = <<>>
    /\ hist.wrote = <<>>
    /\ run.final_research_notes # None
    /\ run.final_research_notes = first_ret["scrape_web_content"]
    /\ run.final_research_notes # run.research_notes

\* ------------------------------------------------------------ C11
\* the phase entered by this step, "" when the step enters none
EnteredNow ==
    IF Len(hist'.entered) = Len(hist.entered) + 1
          /\ Len(hist'.gen) = Len(hist'.entered)
    THEN hist'.entered[Len(hist'.entered)]
    ELSE ""

\* how the collaborator call of the phase entered by this step ended
GenNow == hist'.gen[Len(hist'.gen)]

\* research notes without what the augmentation adds: sections, findings
\* and urls
NotesCore(notes) ==
    [k \in DOMAIN notes.notes_by_section |->
        [section_id |-> notes.notes_by_section[k].section_id,
         summary |-> notes.notes_by_section[k].summary,
         urls |-> [f \in DOMAIN notes.notes_by_section[k].findings |->
                    notes.notes_by_section[k].findings[f].source_url]]]

\* C11 -- degraded continuation of Augment: when phase 3 is entered with
\* research notes and every fetch fails, or the scraping service raises,
\* or a save of the phase raises, run() is not left by an exception: it
\* goes on to phase 4 with notes whose sections, findings and urls are
\* those of the research notes.
C11_DegradedContinuation ==
    [][(/\ EnteredNow = "scrape_web_content"
        /\ run.research_notes # None
        /\ GenNow \in {"empty", "raise", "save_failed"}) =>
            /\ run'.pc = "phase4"
            /\ run'.final_research_notes # None
            /\ NotesCore(run'.final_research_notes[1])
                    = NotesCore(run.research_notes[1])]_vars

\* the same without the failing save: the fetches all fail or the service
\* raises
C11_FetchFailureContinues ==
    [][(/\ EnteredNow = "scrape_web_content"
        /\ run.research_notes # None
        /\ GenNow \in {"empty", "raise"}) =>
            /\ run'.pc = "phase4"
            /\ run'.final_research_notes = run.research_notes]_vars

\* ------------------------------------------------------------ C12
\* the phase's file is there and can be read, but holds no JSON document
\* or a document that is not valid for the phase's model
Malformed(phase) ==
    /\ store[phase].exists
    /\ ~store[phase].io_error
    /\ \/ store[phase].text = <<>>
       \/ store[phase].text[1].model # ModelOf(phase)

\* on a miss the phase has no collaborator to call: no URL to fetch, or no
\* plan with a research record
NothingToGenerate(phase) ==
    CASE phase = "scrape_web_content" ->
            ExtractUrls(run.research_notes[1]) = {}
      [] phase = "synthesize_sections" ->
            SynthesisTasks(run.section_plans[1].section_plans,
                run.final_research_notes[1].notes_by_section) = <<>>
      [] OTHER -> FALSE

\* the events this step emitted
NewEvents == {events'[k] : k \in (Len(events) + 1)..Len(events')}

\* C12 -- corruption recovery: whenever a phase is entered with its inputs
\* present while its file is malformed (no JSON document, or a document
\* that is not valid for the phase's model), load_data reports the load
\* error and hands back None, the phase goes on as on a miss and calls its
\* collaborator again, and when that succeeds the new artifact is what the
\* file holds afterwards and what the phase hands back.
C12_CorruptionRecovery ==
    [][\A phase \in PhaseNames :
        (/\ EnteredNow = phase
         /\ UpstreamPresent(phase)
         /\ Malformed(phase)) =>
            /\ Ev("load_error_" \o phase, "load_error", TRUE) \in NewEvents
            /\ Ev(phase, "cached", TRUE) \notin NewEvents
            /\ ~NothingToGenerate(phase) =>
                    /\ hist'.called = Append(hist.called, phase)
                    /\ GenNow # "not_called"
            /\ GenNow = "ok" =>
                    /\ store'[phase].exists
                    /\ store'[phase].text # <<>>
                    /\ store'[phase].text[1].model = ModelOf(phase)
                    /\ <<store'[phase].text[1].fields>> = ResultIn(run', phase)
                    /\ hist'.wrote = Append(hist.wrote, phase)]_vars

\* an execution found the synthesized article malformed, synthesized the
\* sections again and stored the new article
C12_Witness ==
    /\ "load_error_synthesize_sections" \in EventKeys
    /\ \E c \in DOMAIN hist.called : hist.called[c] = "synthesize_sections"
    /\ \E w \in DOMAIN hist.wrote : hist.wrote[w] = "synthesize_sections"
    /\ run.synthesized_article # None
    /\ Readable("synthesize_sections")
    /\ faults > 0

\* ------------------------------------------------------------ C13
\* C13 (as stated) -- a failed phase persists nothing: for every phase,
\* when its collaborator raises, the phase hands back None and the store
\* is left as it was.
C13_FailedPhaseAbsent ==
    [][\A phase \in PhaseNames :
        (EnteredNow = phase /\ GenNow = "raise") =>
            /\ ResultIn(run', phase) = None
            /\ store' = store]_vars

\* C13 (amended) -- when the collaborator call of a phase raises, the store
\* is left as it was, so every file exists after the phase exactly if it
\* existed before.  Plan, Research (batch), Synthesize, Finalize and
\* Enhance then hand back None; Augment hands back the research notes it
\* was given.
C13_FailedPhasePersistsNothing ==
    [][\A phase \in PhaseNames :
        (EnteredNow = phase /\ GenNow = "raise") =>
            /\ store' = store
            /\ \A f \in FileNames : store'[f].exists = store[f].exists
            /\ hist'.wrote = hist.wrote
            /\ phase # "scrape_web_content" =>
                    ResultIn(run', phase) = None
            /\ phase = "scrape_web_content" =>
                    /\ run'.final_research_notes # None
                    /\ run'.final_research_notes = run.research_notes]_vars

\* the scraping service raised: phase 3 handed back the research notes and
\* wrote no file, and later the synthesis raised and wrote none either
C13_Witness ==
    /\ Len(hist.gen) >= 4
    /\ hist.gen[3] = "raise"
    /\ hist.gen[4] = "raise"
    /\ run.final_research_notes # None
    /\ run.synthesized_article = None
    /\ ~store["scrape_web_content"].exists
    /\ ~store["synthesize_sections"].exists

\* ------------------------------------------------------------ C14
\* C14 -- no exception escapes run(): whatever the collaborators, the
\* fetches, the files and the saves do, an execution of run() is never
\* left by an exception.
C14_NoExceptionEscapes == run.pc # "raised"

\* ------------------------------------------------------------ C15
\* C15 -- storage I/O failure is told from corruption: whenever a phase is
\* entered with its inputs present while its file exists but cannot be
\* opened or read, the phase is aborted: it does not go on as on a miss
\* (no collaborator call, no write), and load_data does not answer as it
\* does for a malformed file (the load_error event and None).
C15_IOFailureDistinguished ==
    [][\A phase \in PhaseNames :
        (/\ EnteredNow = phase
         /\ UpstreamPresent(phase)
         /\ store[phase].exists
         /\ store[phase].io_error) =>
            /\ GenNow = "not_called"
            /\ hist'.called = hist.called
            /\ store' = store
            /\ Ev("load_error_" \o phase, "load_error", TRUE)
                    \notin NewEvents]_vars

\* ------------------------------------------------------------ C16
\* the plan at index i has a research record of its id
PairedPlan(i) ==
    Str(section_plans[i].section_id) \in
        {run.final_research_notes[1].notes_by_section[k].section_id :
            k \in DOMAIN run.final_research_notes[1].notes_by_section}

\* the units dispatched for the plan at index i
UnitsOf(i) == {u \in DOMAIN sy.tasks : sy.tasks[u].plan_index = i}

\* a status event of the phase that names the section: the only events of
\* _synthesize_sections that carry a section id are keyed by it
SectionNamed(id) ==
    \E k \in DOMAIN events :
        events[k].key = "synthesis_section_fail_" \o Str(id)

\* C16 -- pairing in synthesis: once the units are dispatched, a plan with
\* no research record of its id has no unit and a status event names its
\* section as skipped; a plan with a record has exactly one unit.
C16_PairingReported ==
    sy.pc # "start" =>
        \A i \in 1..NumSections :
            IF PairedPlan(i)
            THEN Cardinality(UnitsOf(i)) = 1
            ELSE /\ UnitsOf(i) = {}
                 /\ SectionNamed(section_plans[i].section_id)

\* the dispatch alone: one unit per paired plan, none for the others
C16_DispatchOnce ==
    sy.pc # "start" =>
        \A i \in 1..NumSections :
            Cardinality(UnitsOf(i)) = IF PairedPlan(i) THEN 1 ELSE 0

\* ------------------------------------------------------------ C17
\* C17 -- optional Enhance: whenever the enhancer raises, returns empty
\* content, or its result cannot be saved, run() still ends with the
\* workflow-complete event and returns; the phase hands back None, no
\* enhanced article is in the store, and the final article of phase 5
\* stays in the store, unchanged, as what the execution produced.
C17_OptionalEnhance ==
    [][(/\ EnteredNow = "gemini_enhancement"
        /\ GenNow \in {"raise", "empty", "save_failed"}) =>
            /\ run'.pc = "returned"
            /\ events'[Len(events')] = WorkflowComplete
            /\ Ev("gemini_failed", "failed", TRUE) \in NewEvents
            /\ run'.gemini_enhanced_article = None
            /\ store' = store
            /\ LoadData(store', "gemini_enhancement",
                        "FinalArticleWithGemini") = None
            /\ run'.final_article = run.final_article
            /\ run'.final_article # None
            /\ LoadData(store', "openai_final_article_creation",
                        "FinalArticle") = run'.final_article]_vars

\* an execution whose enhancer returned empty content returned with the
\* final article stored and no enhanced article
C17_Witness ==
    /\ run.pc = "returned"
    /\ Len(hist.gen) = 6
    /\ hist.gen[6] = "empty"
    /\ run.final_article # None
    /\ Readable("openai_final_article_creation")
    /\ ~store["gemini_enhancement"].exists
    /\ events[Len(events)] = WorkflowComplete

\* ------------------------------------------------------------ C18
\* the phase's file holds a document that is valid for the phase's model
ValidFile(dir, phase) ==
    /\ dir[phase].exists
    /\ ~dir[phase].io_error
    /\ dir[phase].text # <<>>
    /\ dir[phase].text[1].model = ModelOf(phase)

\* C18 -- persisted artifacts are never overwritten in place: in every
\* step of an execution (any step but clear_cache and damage to a file), a
\* phase file changes only in the step that enters that phase, and only
\* when the file held no valid artifact, so that load_data handed back
\* None in that execution; a valid artifact keeps its value.
C18_NeverOverwritten ==
    [][faults' = faults =>
        \A phase \in PhaseNames :
            /\ ValidFile(store, phase) => store'[phase] = store[phase]
            /\ store'[phase] # store[phase] =>
                    /\ EnteredNow = phase
                    /\ ~ValidFile(store, phase)
                    /\ Ev(phase, "cached", TRUE) \notin NewEvents
                    /\ ValidFile(store', phase)]_vars

\* a later execution took the plan from the store and wrote only the
\* artifact that was missing
C18_Witness ==
    /\ Len(hist.entered) >= 2
    /\ hist.gen[1] = "not_called"
    /\ hist.wrote = <<"researching">>
    /\ ValidFile(store, "planning")
    /\ <<store["planning"].text[1].fields>> = run.section_plans
    /\ ValidFile(store, "researching")

\* ------------------------------------------------------------ C19
\* the section ids of the plan this execution uses, as the notes spell them
PlanIdsUsed == {Str(section_plans[i].section_id) : i \in 1..NumSections}

\* the section ids of a sequence of records, in order
IdsOf(records) == [k \in DOMAIN records |-> records[k].section_id]

NoDuplicates(ids) ==
    \A k, l \in DOMAIN ids : ids[k] = ids[l] => k = l

\* C19 -- section ids are stable across phases: in every execution, after
\* any earlier executions and clear_cache calls, the section ids of the
\* research notes, of the augmented notes and of the synthesized article
\* the execution uses are ids of the plan it uses, each at most once.
C19_SectionIdsStable ==
    run.section_plans # None =>
        /\ run.research_notes # None =>
                LET ids == IdsOf(run.research_notes[1].notes_by_section)
                IN  Range(ids) \subseteq PlanIdsUsed /\ NoDuplicates(ids)
        /\ run.final_research_notes # None =>
                LET ids == IdsOf(run.final_research_notes[1].notes_by_section)
                IN  Range(ids) \subseteq PlanIdsUsed /\ NoDuplicates(ids)
        /\ run.synthesized_article # None =>
                LET ids == IdsOf(run.synthesized_article[1].sections)
                IN  /\ {Str(ids[k]) : k \in DOMAIN ids} \subseteq PlanIdsUsed
                    /\ NoDuplicates(ids)

\* ------------------------------------------------------------ C20
\* where the events keyed by key are in this execution's event list
Positions(key) == {i \in DOMAIN events : events[i].key = key}

Last(S) == CHOOSE x \in S : \A y \in S : y <= x

\* what an event says while the phase is still at work
InProgress ==
    {"creating", "researching", "analyzing", "scraping", "synthesizing",
     "enhancing"}

\* C20 -- status events: for every phase this execution has entered,
\* whatever path it took (cached, succeeded, skipped, degraded, failed),
\* the last event keyed by the phase's name has is_done = TRUE and states
\* an outcome, it comes after the phase's start event, and the start event
\* of the next phase, if there is one, comes after it.
C20_StatusEvents ==
    \A k \in DOMAIN hist.entered :
        LET own == Positions(hist.entered[k])
            start == Positions(PhaseStart(k).key)
            next == Positions(PhaseStart(k + 1).key)
        IN  /\ own # {}
            /\ start # {}
            /\ events[Last(own)].is_done
            /\ events[Last(own)].what \notin InProgress
            /\ Last(own) > Last(start)
            /\ \A n \in next : n > Last(own)

\* an execution went through all six phases: plan from the store,
\* research done, scraping degraded, synthesis failed, the rest skipped
C20_Witness ==
    /\ run.pc = "returned"
    /\ hist.entered = PhaseOrder
    /\ hist.gen = <<"not_called", "ok", "raise", "raise",
                    "not_called", "not_called">>
    /\ Ev("planning", "cached", TRUE) \in Range(events)
    /\ Ev("openai_final_article_creation", "skipped", TRUE) \in Range(events)

\* ------------------------------------------------------------ C21
\* an event of this execution reports an outcome of the phase
OutcomeReported(phase) ==
    \E i \in Positions(phase) :
        events[i].is_done /\ events[i].what \notin InProgress

\* C21 -- final report: whenever run() has returned, also after a failed
\* planning, the workflow-complete event is the last event of the
\* execution and an outcome has been reported for each of the six phases.
C21_FinalReport ==
    run.pc = "returned" =>
        /\ events # <<>>
        /\ events[Len(events)] = WorkflowComplete
        /\ \A phase \in PhaseNames : OutcomeReported(phase)

\* the same for the executions that entered all six phases
C21_FullRunReport ==
    (run.pc = "returned" /\ hist.entered = PhaseOrder) =>
        /\ events[Len(events)] = WorkflowComplete
        /\ Positions(WorkflowComplete.key) = {Len(events)}
        /\ \A phase \in PhaseNames : OutcomeReported(phase)

\* ------------------------------------------------------------ C22
\* text ends with tail
EndsWith(text, tail) ==
    /\ Len(tail) <= Len(text)
    /\ SubSeq(text, Len(text) - Len(tail) + 1, Len(text)) = tail

\* every attempt the current section is allowed has failed
AttemptsExhausted ==
    InSection /\ r_cur.fails = max_retries + 1

\* C22 -- failed placeholder content: once a section has failed all its
\* max_retries + 1 attempts, exactly one record stands for it; the record
\* carries the id of the plan the section started with (also when the
\* recovery agent handed back a plan with another id), has no findings,
\* and its summary ends with the cause of the last failed attempt, cut to
\* its first CauseLimit characters when it is longer.
C22_PlaceholderContent ==
    AttemptsExhausted =>
        /\ Len(r_emitted[rs.i]) = 1
        /\ LET rec == r_emitted[rs.i][1]
               cause == r_cur.last_error
           IN  /\ rec.section_id = SectionIdStr(rs.i)
               /\ rec.findings = <<>>
               /\ rec.summary # ""
               /\ Len(cause) <= CauseLimit => EndsWith(rec.summary, cause)
               /\ Len(cause) > CauseLimit =>
                    /\ EndsWith(rec.summary,
                                ": " \o SubSeq(cause, 1, CauseLimit))
                    /\ ~EndsWith(rec.summary, cause)

\* a section whose recovery handed back a plan with another id failed its
\* last attempt with a cause longer than CauseLimit
C22_Witness ==
    /\ AttemptsExhausted
    /\ max_retries >= 1
    /\ r_cur.recovery = "improved"
    /\ r_cur.last_input.section_id # section_plans[rs.i].section_id
    /\ Len(r_cur.last_error) > CauseLimit
    /\ Len(r_emitted[rs.i]) = 1

\* ------------------------------------------------------------ C23
\* C23 -- recovery is one-shot: for each section the recovery call is made
\* at most once; it is made only when max_retries > 0, right after the
\* section's max_retries-th failed attempt, and at most one attempt follows
\* it; a section that succeeds within its first max_retries attempts has
\* no recovery call.
C23_RecoveryOneShot ==
    [][/\ InSection' =>
            /\ r_cur'.recoveries <= 1
            /\ r_cur'.recoveries = 1 =>
                    /\ max_retries > 0
                    /\ r_cur'.fails >= max_retries
                    /\ r_cur'.attempts <= max_retries + 1
            /\ (r_cur'.attempts <= max_retries /\ r_cur'.fails < r_cur'.attempts)
                    => r_cur'.recoveries = 0
       /\ (rs'.pc = "recovery" /\ rs.pc # "recovery") =>
            /\ rs.pc = "attempt"
            /\ r_cur'.fails = r_cur.fails + 1
            /\ r_cur'.fails = max_retries
            /\ r_cur'.attempts = max_retries
            /\ r_cur.recoveries = 0
       /\ r_cur'.recoveries = r_cur.recoveries + 1 =>
            /\ rs.pc = "recovery"
            /\ r_cur'.attempts = max_retries
            /\ rs'.pc \in {"attempt", "for"}]_vars

\* with two retries configured, a section failed twice, was recovered once
\* and made its third attempt
C23_Witness ==
    /\ InSection
    /\ max_retries = 2
    /\ r_cur.recoveries = 1
    /\ r_cur.recovery = "improved"
    /\ r_cur.attempts = 3

\* ------------------------------------------------------------ C24
\* this step is a research attempt of the current section
AttemptStep == r_cur'.attempts = r_cur.attempts + 1

\* C24 -- retry input: each of the first max_retries attempts of a section
\* is made with the section's own plan as the planner gave it; the plan a
\* successful recovery handed back is the input of the attempt right after
\* it, the section's last, and of no other attempt; a section whose
\* recovery was not made or failed is never researched with another plan.
C24_RetryInput ==
    [][AttemptStep =>
        /\ r_cur'.attempts <= max_retries + 1
        /\ r_cur'.attempts <= max_retries =>
                r_cur'.last_input = section_plans[rs.i]
        /\ r_cur.recovery # "improved" =>
                r_cur'.last_input = section_plans[rs.i]
        /\ r_cur.recovery = "improved" =>
                /\ r_cur'.attempts = max_retries + 1
                /\ r_cur'.last_input.research_queries = "improved"
                /\ r_cur'.last_input = rs.current_section_plan
                /\ rs'.pc # "attempt"]_vars

\* the first section's last attempt used the recovered plan, and the second
\* section was then researched with its own plan
C24_Witness ==
    /\ rs.i = 2
    /\ max_retries >= 1
    /\ r_cur.attempts = 1
    /\ r_cur.last_input = section_plans[2]
    /\ Len(rs.all_section_notes) >= 1
    /\ rs.all_section_notes[1].summary # "summary"

\* ------------------------------------------------------------ C25
\* a required phase of this execution has ended with no artifact
RequiredFailed ==
    \E k \in DOMAIN hist.entered :
        hist.entered[k] \in RequiredPhases /\ FailedAt(k)

\* C25 -- halting downstream of a failed required phase: every phase that
\* is entered after Plan, Research, Synthesize or Finalize has ended with
\* no artifact in the same execution is skipped: it calls no collaborator,
\* hands back no stored artifact (it hands back None), and writes nothing.
C25_DownstreamHalted ==
    [][\A phase \in PhaseNames :
        (EnteredNow = phase /\ RequiredFailed) =>
            /\ GenNow = "not_called"
            /\ hist'.called = hist.called
            /\ hist'.wrote = hist.wrote
            /\ store' = store
            /\ ResultIn(run', phase) = None
            /\ NewEvents \cap {Ev(phase, "cached", TRUE)} = {}
            /\ Ev(phase, "skipped", TRUE) \in NewEvents]_vars

\* the research of a later execution failed while the augmented notes and
\* the synthesized article of an earlier one were in the store; the
\* execution went through all phases and used neither
C25_Witness ==
    /\ run.pc = "returned"
    /\ hist.entered = PhaseOrder
    /\ hist.called = <<"researching">>
    /\ run.research_notes = None
    /\ run.final_research_notes = None
    /\ run.synthesized_article = None
    /\ ValidFile(store, "scrape_web_content")
    /\ ValidFile(store, "synthesize_sections")

\* ------------------------------------------------------------ C26
\* C26 -- phase ordering: the phases an execution has entered are the first
\* ones of Plan, Research, Augment, Synthesize, Finalize, Enhance, in that
\* order and each once; each phase has one start event; run() is at phase
\* k + 1 only when k phases have been entered and have returned; and every
\* event a phase emits under its name lies after its own start event and
\* before the start event of the next phase.
C26_PhaseOrdering ==
    /\ Len(hist.entered) <= Len(PhaseOrder)
    /\ hist.entered = SubSeq(PhaseOrder, 1, Len(hist.entered))
    /\ \A k \in DOMAIN PhaseOrder :
            /\ Cardinality(Positions(PhaseStart(k).key)) =
                    IF k <= Len(hist.entered) THEN 1 ELSE 0
            /\ run.pc = "phase" \o Str(k) => Len(hist.entered) = k - 1
    /\ \A k \in DOMAIN hist.entered :
            \A i \in Positions(hist.entered[k]) :
                /\ \A n \in Positions(PhaseStart(k).key) : n < i
                /\ \A n \in Positions(PhaseStart(k + 1).key) : i < n

\* a first execution for a title went through all six phases and each
\* called its collaborator
C26_Witness ==
    /\ run.pc = "returned"
    /\ hist.entered = PhaseOrder
    /\ hist.called = PhaseOrder
    /\ hist.wrote = PhaseOrder
    /\ faults = 0

\* ------------------------------------------------------------ C27
\* the calls of the current section the coordinator is awaiting
InFlight ==
    (IF rs.pc = "attempt" THEN {<<"attempt", r_cur.attempts + 1>>} ELSE {})
    \cup (IF rs.pc = "recovery" THEN {<<"recovery", 1>>} ELSE {})

\* C27 -- sequential attempts per section: at most one call of a section
\* (a research attempt or the recovery call) is awaited at a time; while
\* attempt k + 1 is awaited, the k earlier attempts of the section have all
\* ended, and ended in failure; the recovery call is awaited only when all
\* max_retries attempts made so far have ended in failure; once an attempt
\* has succeeded no further call of the section is made.
C27_SequentialAttempts ==
    InSection =>
        /\ Cardinality(InFlight) <= 1
        /\ rs.pc = "attempt" =>
                /\ r_cur.fails = r_cur.attempts
                /\ rs.retry_count = r_cur.attempts
        /\ rs.pc = "recovery" =>
                /\ r_cur.fails = r_cur.attempts
                /\ r_cur.attempts = max_retries
        /\ r_cur.attempts - r_cur.fails \in {0, 1}
        /\ r_cur.fails < r_cur.attempts => InFlight = {}

\* the third attempt of a section is awaited after two failed attempts and
\* the recovery call
C27_Witness ==
    /\ InSection
    /\ InFlight = {<<"attempt", 3>>}
    /\ r_cur.fails = 2
    /\ r_cur.recoveries = 1

\* ------------------------------------------------------------ C28
\* a finding without its fetched content
WithoutContent(f) == [f EXCEPT !.scraped_content = None]

\* the same sections in the same order, per section the same findings up to
\* their fetched content
OnlyContentDiffers(input, output) ==
    /\ Len(output.notes_by_section) = Len(input.notes_by_section)
    /\ \A k \in DOMAIN input.notes_by_section :
        LET a == input.notes_by_section[k]
            b == output.notes_by_section[k]
        IN  /\ b.section_id = a.section_id
            /\ b.summary = a.summary
            /\ Len(b.findings) = Len(a.findings)
            /\ \A f \in DOMAIN a.findings :
                    WithoutContent(b.findings[f]) = WithoutContent(a.findings[f])

\* C28 -- augmentation only extends: whenever the Augment phase returns
\* research notes, they have the sections of the notes the phase was given,
\* in the same order, and per section the same findings with the same source
\* URL, snippet and relevance score, only scraped_content may differ; the
\* notes the phase was given and the research file are left as they were.
C28_AugmentOnlyExtends ==
    [][(/\ run.pc = "phase3"
        /\ run'.pc = "phase4"
        /\ run'.final_research_notes # None)
        => /\ run.research_notes # None
           /\ OnlyContentDiffers(run.research_notes[1],
                                 run'.final_research_notes[1])
           /\ run'.research_notes = run.research_notes
           /\ store'["researching"] = store["researching"]]_vars

\* ------------------------------------------------------------ C29
\* the findings of the notes, as <<section index, finding index>>
FindingsOf(notes) ==
    {<<k, f>> \in (DOMAIN notes.notes_by_section) \X (1..2) :
        f \in DOMAIN notes.notes_by_section[k].findings}

\* the URLs for which a crawl delivered a page worth keeping
Fetched ==
    {u \in FilterScrapableUrls(Urls) :
        /\ ws.crawl # None
        /\ ws.crawl[1].kind = "results"
        /\ ws.crawl[1].results[u] \in {"page", "fit_page"}}

\* C29 -- fetch failures are empty results: however the crawl ends (it
\* raises, or it fails for some URLs), the scraping service returns; in the
\* notes it returns, a finding whose URL was not fetched has no
\* scraped_content, a finding whose URL was fetched holds the cleaned text of
\* the crawl result of that very URL, and after a crawl that raised no
\* finding has content.
C29_FetchFailuresAreEmpty ==
    /\ ws.pc # "raised"
    /\ ws.pc = "done" /\ ws.research_notes # None =>
        /\ ws.ret # None
        /\ Fetched = {} => ws.ret = ws.research_notes
        /\ \A p \in FindingsOf(ws.research_notes[1]) :
            LET given == ws.research_notes[1]
                            .notes_by_section[p[1]].findings[p[2]]
                got == ws.ret[1].notes_by_section[p[1]].findings[p[2]]
            IN  /\ got.source_url = given.source_url
                /\ IF given.source_url \in Fetched
                   THEN got.scraped_content =
                            ResultContent(CrawlResult(given.source_url,
                                ws.crawl[1].results[given.source_url]))
                        /\ got.scraped_content # None
                   ELSE got.scraped_content = None

\* the crawl failed for u2 and delivered a page for u1: the finding of u1 got
\* content, the finding of u2 none
C29_Witness ==
    /\ ws.pc = "done"
    /\ ws.crawl # None
    /\ ws.crawl[1].kind = "results"
    /\ ws.crawl[1].results["u1"] = "page"
    /\ ws.crawl[1].results["u2"] = "failed"
    /\ \E k \in DOMAIN ws.ret[1].notes_by_section :
        LET fs == ws.ret[1].notes_by_section[k].findings
        IN  /\ Len(fs) = 2
            /\ fs[1].source_url = "u1" /\ fs[1].scraped_content # None
            /\ fs[2].source_url = "u2" /\ fs[2].scraped_content = None

\* ------------------------------------------------------------ C30
StoreKeys == Slugs \X FileNames

FileAt(disk, key) == disk[key[1]][key[2]]

\* the callers whose call moved in the step
Stepping == {w \in Callers : dm'.calls[w] # dm.calls[w]}

\* C30 -- store writes are key-scoped: a step of a save_data call changes at
\* most the file of the call's own (title_slug, phase); and however the steps
\* of two calls for different keys interleave, when both have ended the file
\* of a call that returned holds the document of the data it was given, and
\* every file that no call was for -- the other phases of the same run, the
\* files of every other run -- is as it was before the calls.
C30_KeyScopedWrites ==
    /\ [][\A key \in StoreKeys :
            FileAt(dm'.disk, key) # FileAt(dm.disk, key)
                => \E w \in Stepping : KeyOf(dm.calls[w]) = key]_vars
    /\ [](\A key \in StoreKeys :
            /\ (\A w \in Callers : KeyOf(dm.calls[w]) # key)
                    => FileAt(dm.disk, key) = FileAt(dm.disk0, key)
            /\ \A w \in Callers :
                (/\ KeyOf(dm.calls[w]) = key
                 /\ dm.calls[w].pc = "returned"
                 /\ dm.calls[w].data # None)
                    => /\ FileAt(dm.disk, key).exists
                       /\ FileAt(dm.disk, key).text =
                            <<ModelDumpJson("ResearchNotes",
                                            dm.calls[w].data[1])>>)

\* both calls have returned: w1 wrote planning of run a where files of other
\* phases and of run b had been stored before, w2 wrote a file of run b
C30_Witness ==
    /\ \A w \in Callers : dm.calls[w].pc = "returned"
    /\ KeyOf(dm.calls["w1"]) = <<"a", "planning">>
    /\ dm.calls["w1"].data # None
    /\ dm.calls["w2"].title_slug = "b"
    /\ FileAt(dm.disk0, <<"a", "researching">>).exists
    /\ FileAt(dm.disk0, <<"a", "planning">>).exists
    /\ FileAt(dm.disk, <<"a", "planning">>) #
            FileAt(dm.disk0, <<"a", "planning">>)

\* ------------------------------------------------------------ C31
\* the (title_slug, file) keys a clear_cache call is for
ClearedKeys(call) ==
    {key \in StoreKeys :
        /\ key[1] = call.title_slug
        /\ call.phase = "" \/ key[2] = call.phase}

\* C31 -- clear semantics: a clear_cache call returns without raising; after
\* it no file exists under the keys it is for (the one phase, or every file
\* of the run) and load_data returns None for them; every other file, of the
\* other phases and of the other runs, is as it was; and when none of its
\* keys held a file the data directory is unchanged.
C31_ClearSemantics ==
    [][\A w \in Stepping :
        LET call == dm.calls[w]
        IN  /\ dm'.calls[w].pc = "returned"
            /\ \A key \in StoreKeys :
                IF key \in ClearedKeys(call)
                THEN /\ ~ HasCachedData(dm'.disk[key[1]], key[2])
                     /\ LoadData(dm'.disk[key[1]], key[2],
                                 "ResearchNotes") = None
                ELSE FileAt(dm'.disk, key) = FileAt(dm.disk, key)
            /\ (\A key \in ClearedKeys(call) : ~ FileAt(dm.disk, key).exists)
                    => dm'.disk = dm.disk]_vars

\* one phase of run a was cleared where run a held other files and run b
\* held the same phase, then a call cleared a key that held nothing
C31_Witness ==
    /\ \A w \in Callers : dm.calls[w].pc = "returned"
    /\ KeyOf(dm.calls["w1"]) = <<"a", "planning">>
    /\ KeyOf(dm.calls["w2"]) = <<"a", "gemini_enhancement">>
    /\ FileAt(dm.disk0, <<"a", "planning">>).exists
    /\ ~ FileAt(dm.disk, <<"a", "planning">>).exists
    /\ FileAt(dm.disk, <<"a", "researching">>).exists
    /\ FileAt(dm.disk, <<"b", "planning">>).exists

\* ------------------------------------------------------------ C32
\* some finding of the notes holds fetched content
HasScrapedContent(notes) ==
    \E k \in DOMAIN notes.notes_by_section :
        \E f \in DOMAIN notes.notes_by_section[k].findings :
            notes.notes_by_section[k].findings[f].scraped_content # None

\* C32 -- Augment never persists a failed or empty outcome: whenever the
\* Augment phase writes scrape_web_content.json, the notes it writes hold
\* fetched content for at least one finding; with no URL, with every fetch
\* failing, or with the fetch raising, the file is left as it was.
C32_AugmentPersistsOnlyContent ==
    [][(/\ run.pc = "phase3"
        /\ store'["scrape_web_content"] # store["scrape_web_content"])
        => /\ LoadData(store', "scrape_web_content", "ResearchNotes") # None
           /\ HasScrapedContent(
                LoadData(store', "scrape_web_content", "ResearchNotes")[1])
      ]_vars

\* ------------------------------------------------------------ C33
\* the plan's sections the returned notes leave out
MissingSections(notes) ==
    {Str(section_plans[k].section_id) : k \in DOMAIN section_plans}
    \ {notes[k].section_id : k \in DOMAIN notes}

\* C33 -- batch research strategy: the research agent is called once, with
\* no retry and no recovery call; when the call fails the phase returns
\* nothing and stores nothing; when it succeeds the notes are returned and
\* stored exactly as the agent returned them, with a warning event when
\* sections of the plan are missing from them and no record added for these.
C33_BatchStrategy ==
    [][\A out \in BatchChoices :
        B_Research(out) =>
            /\ hist'.called = <<"researching">>
            /\ r_cur' = CurFresh /\ rs' = ResearchLocals
            /\ out.kind = "raise" =>
                    /\ run'.research_notes = None
                    /\ store' = store
            /\ (out.kind = "ok" /\ out.io = "ok") =>
                    /\ run'.research_notes = <<ResearchNotes(out.notes)>>
                    /\ store'["researching"].text =
                        <<ModelDumpJson("ResearchNotes",
                                        ResearchNotes(out.notes))>>
                    /\ \A f \in FileNames \ {"researching"} :
                            store'[f] = store[f]
                    /\ MissingSections(out.notes) # {} <=>
                        \E n \in DOMAIN events' :
                            events'[n] = Ev("research_warning", "missing",
                                            TRUE)]_vars

\* a plan of two sections, the agent returned notes for the second only:
\* they are returned as they are, with the warning
C33_Witness ==
    /\ run.pc = "phase3"
    /\ NumSections = 2
    /\ run.research_notes # None
    /\ Len(run.research_notes[1].notes_by_section) = 1
    /\ run.research_notes[1].notes_by_section[1].section_id = SectionIdStr(2)
    /\ store["researching"].exists
    /\ \E n \in DOMAIN events :
            events[n] = Ev("research_warning", "missing", TRUE)

\* ------------------------------------------------------------ C34
\* C34 -- bounded attempts and termination of research: whatever
\* max_retries is and however the attempts and recovery calls end, a section
\* makes at most max_retries + 1 research attempts and at most one recovery
\* call, the sections are taken one by one in plan order, and, every call
\* returning or raising, the phase eventually leaves the loop after the last
\* section of the plan and returns.
C34_BoundedTermination ==
    /\ [](/\ r_cur.attempts <= max_retries + 1
          /\ r_cur.recoveries <= 1
          /\ rs.i <= NumSections)
    /\ [][/\ rs'.i \in {rs.i, rs.i + 1}
          /\ rs'.i = rs.i + 1 => r_cur' = CurFresh
          /\ rs'.pc = "done" => rs.i = NumSections]_vars
    /\ <>(rs.pc = "done" /\ rs.i = NumSections)

\* the phase has returned after a section used up all its attempts and the
\* recovery call, with max_retries = 2
C34_Witness ==
    /\ rs.pc = "done"
    /\ rs.i = NumSections
    /\ NumSections = 2
    /\ max_retries = 2
    /\ r_cur.attempts = 3
    /\ r_cur.recoveries = 1

\* ------------------------------------------------------------ C35
\* the dispatched units whose output could not be used, in dispatch order
UnusableUnits ==
    SelectSeq(Indexes(Len(sy.tasks)),
              LAMBDA u : sy.tasks[u].status = "unusable")

\* the results of all units have been gathered and gone through
Aggregated ==
    /\ sy.pc = "done"
    /\ sy.tasks # <<>>
    /\ \A u \in DOMAIN sy.tasks : sy.tasks[u].status \in {"ok", "unusable"}

\* C35 -- failure attribution in synthesis: for every dispatched unit whose
\* output cannot be used, the failure event emitted for it names the section
\* id of the plan the unit was dispatched for, also when plans before it had
\* no research record and so no unit.
C35_FailureAttribution ==
    Aggregated =>
        /\ Len(sy.fail_events) = Len(UnusableUnits)
        /\ \A k \in DOMAIN UnusableUnits :
            LET id == section_plans[sy.tasks[UnusableUnits[k]].plan_index]
                            .section_id
            IN  /\ sy.fail_events[k] = id
                /\ \E n \in DOMAIN events :
                    events[n] = Ev("synthesis_section_fail_" \o Str(id),
                                   "failed", TRUE)

\* ------------------------------------------------------------ C36
\* the phase's file was opened for writing and holds no complete document
Partial(phase) ==
    /\ store[phase].exists
    /\ ~store[phase].io_error
    /\ store[phase].text = <<>>

\* C36 -- crash-safe resume: whatever earlier executions left behind, a
\* write that was cut short included, an execution that enters a phase
\* with its inputs present finds either a completely written artifact, and
\* then hands it back from the store, calling nothing and writing nothing,
\* or a partial file, and then reports the load error, goes on as on a
\* miss, calls the collaborator again, stores and hands back the new
\* artifact when that succeeds, and is not left by an exception unless a
\* save of this execution raises or the new plan has no keywords.
C36_CrashSafeResume ==
    [][\A phase \in PhaseNames :
        (EnteredNow = phase /\ UpstreamPresent(phase)) =>
            /\ Readable(phase) =>
                    /\ Ev(phase, "cached", TRUE) \in NewEvents
                    /\ ResultIn(run', phase)
                            = LoadData(store, phase, ModelOf(phase))
                    /\ hist'.called = hist.called
                    /\ store' = store
            /\ Partial(phase) =>
                    /\ Ev("load_error_" \o phase, "load_error", TRUE)
                            \in NewEvents
                    /\ Ev(phase, "cached", TRUE) \notin NewEvents
                    /\ ~NothingToGenerate(phase) =>
                            hist'.called = Append(hist.called, phase)
                    /\ GenNow = "ok" =>
                            /\ ResultIn(run', phase) # None
                            /\ LoadData(store', phase, ModelOf(phase))
                                    = ResultIn(run', phase)
                    /\ run'.pc = "raised" =>
                            \/ GenNow = "save_failed"
                            \/ /\ phase = "planning"
                               /\ run'.section_plans # None
                               /\ PrintArticlePlanRaises(run'.section_plans)]_vars

\* an execution was stopped while it wrote the research notes for the first
\* time; the next one got the plan from the store and is about to enter
\* the research phase, whose file holds no document
C36_Witness ==
    /\ run.pc = "phase2"
    /\ Partial("researching")
    /\ first_ret["researching"] = None
    /\ Ev("planning", "cached", TRUE) \in {events[k] : k \in DOMAIN events}
    /\ hist.called = <<>>

\* ------------------------------------------------------------ C37
\* the record is the placeholder of a section whose research failed
\* (lines 277-281)
IsPlaceholder(rec) ==
    /\ rec.findings = <<>>
    /\ Len(rec.summary) >= 21
    /\ SubSeq(rec.summary, 1, 21) = "Research failed after"

\* the placeholder records of research notes, with their positions
PlaceholdersOf(notes) ==
    {<<k, notes[1].notes_by_section[k]>> :
        k \in {j \in DOMAIN notes[1].notes_by_section :
                    IsPlaceholder(notes[1].notes_by_section[j])}}

StoredResearch == LoadData(store, "researching", "ResearchNotes")

\* the Augment phase of this execution was served from the store
AugmentCached ==
    Ev("scrape_web_content", "cached", TRUE)
        \in {events[k] : k \in DOMAIN events}

NothingToPair ==
    /\ run.section_plans # None
    /\ run.final_research_notes # None
    /\ SynthesisTasks(run.section_plans[1].section_plans,
            run.final_research_notes[1].notes_by_section) = <<>>

Called(phase) == \E k \in DOMAIN hist.called : hist.called[k] = phase

\* C38 (as stated) -- synthesis with nothing to pair: when Synthesize is
\* entered while no section plan has a research record with a matching id,
\* it dispatches no synthesis unit, persists nothing and returns no
\* artifact, and Finalize and Enhance invoke no generator in that
\* execution.
C38_NothingToPair ==
    /\ [][(EnteredNow = "synthesize_sections" /\ NothingToPair) =>
            /\ hist'.called = hist.called
            /\ store' = store
            /\ run'.synthesized_article = None]_vars
    /\ []((NothingToPair /\ run.pc \in {"phase5", "phase6", "returned"}) =>
            /\ ~Called("openai_final_article_creation")
            /\ ~Called("gemini_enhancement"))

====
